---- MODULE Spec2Model ----
(***************************************************************************)
(* The hexapod control core: the command facade and leg safety layer of    *)
(* HexapodDevice (software/hexapod/hexapod.py), its ball-tracking loop,    *)
(* and the UNIX-socket RPC bridge (software/hexapod/rpc_server.py).        *)
(*                                                                         *)
(* Threads: one handler thread per connection (the workers), the tracking  *)
(* loop thread, and the clock.  A handler's request is one step when the   *)
(* method touches nothing another thread reads in between; the methods     *)
(* that write the command slot, wait for the tracking thread or fill the   *)
(* leg table entry by entry take one step per shared access.               *)
(***************************************************************************)
EXTENDS Integers, Sequences, FiniteSets, TLC

\* ------------------------------------------------------------------ bounds
NumWorkers == 2
MaxShutdowns == 1
MaxClock == 1

Workers == 1..NumWorkers

\* The thread that runs main(): serve_forever, then server_close.
MainThread == NumWorkers + 1
Threads == Workers \cup {MainThread}

\* --------------------------------------------------------------- constants
NumLegs == 6
LegLen == 3
MaxLegIndex == 5
MinReach == 90
MaxReach == 248
HomeX == 140
DefaultSpeed == 8
HeadCentre == 90
ChanHeadV == 0
ChanHeadH == 1
NoAngle == -1
AngleClamp == 10
i_saturation == 10
min_radius == 7
StepClamp == 15

Legs == 0..MaxLegIndex

\* ------------------------------------------------------------- JSON values
\* A scalar argument as it arrives from JSON: an integer, a float (v halves:
\* F(3) is 1.5) or a string that is not a number.
I(n) == [t |-> "int", v |-> n]
F(h) == [t |-> "float", v |-> h]
S == [t |-> "str", v |-> 0]

\* A float the PIDs compute, in thousandths: M(1500) is 1.5.
M(n) == [t |-> "milli", v |-> n]

\* Truncation toward zero of n / d.
Trunc(n, d) == IF n >= 0 THEN n \div d ELSE 0 - ((0 - n) \div d)

\* Python's int(): identity on integers, truncation toward zero on floats,
\* ValueError on a non-numeric string.
CanInt(r) == r.t # "str"
int(r) ==
  IF r.t = "int" THEN r.v
  ELSE IF r.t = "milli" THEN Trunc(r.v, 1000)
  ELSE Trunc(r.v, 2)

\* Python's str() of an integer.
str(n) == ToString(n)

\* An entry of a batch: a JSON list of scalars, or a scalar (which has no len()).
List(items) == [seq |-> TRUE, items |-> items]
Scalar == [seq |-> FALSE, items |-> <<>>]

Max(a, b) == IF a >= b THEN a ELSE b
Min(a, b) == IF a <= b THEN a ELSE b

\* ------------------------------------------------------------------- state
VARIABLES
  moving,          \* HexapodDevice._moving
  since_move,      \* "moved": the last motion call was a move with motion;
                   \* "stopped": a stop has followed it; "none" otherwise
  ball_active,     \* HexapodDevice._ball_active
  ball_tracking,   \* HexapodDevice._ball_tracking
  ball_stop_set,   \* HexapodDevice._ball_stop (threading.Event)
  move_speed,      \* HexapodDevice.move_speed
  last_call,       \* the last call returned that writes the slot or a tracking
                   \* flag: "ball_start" (it started the loop), "ball_start/running"
                   \* (the loop was running), "ball_stop" or "other"
  tick_centred,    \* the tracking loop's last tick found the target centred, and
                   \* no ball_start has returned since
  connected,       \* HexapodDevice.connected
  servo_power,     \* control.servo_power_disable is off
  streaming,       \* camera.streaming
  command_queue,   \* control.command_queue: the command slot
  timeout,         \* control.timeout: the slot's timestamp
  cmd_by,          \* which issuance wrote command_queue
  ts_by,           \* which issuance wrote timeout
  rpc_ts,          \* the timestamp written by the last RPC-driven issuance
  track_ts,        \* the timestamp written by the last tracking-loop issuance
  now,             \* time.time()
  led_thread,      \* HexapodDevice._led_thread: "none", or "run" or "dead"
  led_command,     \* the command the last LED thread was started with
  live_leds,       \* the number of live threads running an LED command
  forced,          \* the forced terminations done so far: the kind of task, whether
                   \* it had been signalled to stop, whether it had been joined
  leg_positions,   \* control.leg_positions: LegState
  applied,         \* the table control.set_leg_angles() last drove the servos to
  servo,           \* servo channel -> last angle written by set_servo_angle
  tpc,             \* the tracking thread: "dead", "loop" (top of the loop), "ts"
  centred,         \* tracking thread local: step == 0 and angle == 0
  live_loops,      \* the number of live threads running _ball_tracking_loop
  lock,            \* HexapodRPCServer.lock: 0 or the worker that holds it
  pc,              \* each handler thread's position
  loc,             \* each handler thread's locals while inside a device call
  unanswered,      \* the connections whose last request line has no envelope yet
  listening,       \* the server's listening socket is open
  socket_path,     \* the socket path exists in the file system
  shutdown_request,\* BaseServer.shutdown() has been called
  shutdown_threads,\* the threads inside _shutdown_after_response, asleep
  closing,         \* what server_close has attempted so far, in order
  pid_x,           \* HexapodDevice._pid_x: gains, set point, i_error, last_error,
                   \* and of its last compute: output, the value returned
                   \* (angle_out), and delta, error - last_error
  pid_distance,    \* HexapodDevice._pid_distance, likewise (step_out)
  calibration_angles, \* control.calibration_angles: per leg, three offsets
  joint_in,        \* per leg, the joint angles of the last joint-angle call that
                   \* wrote the leg's channels, NoInput when a raw call wrote since
  out              \* the last envelope written to a connection

flagVars ==
  <<moving, since_move, ball_active, ball_tracking, ball_stop_set, move_speed, last_call,
    tick_centred>>
connVars == <<connected, servo_power, streaming>>
slotVars == <<command_queue, timeout, cmd_by, ts_by, rpc_ts, track_ts>>
legVars == <<leg_positions, applied>>
trackVars == <<tpc, centred, live_loops>>
rpcVars == <<lock, pc, loc, unanswered>>
ledVars == <<led_thread, led_command, live_leds, forced>>
serverVars == <<listening, socket_path, shutdown_request, shutdown_threads, closing>>
calibVars == <<calibration_angles, joint_in>>
pidVars == <<pid_x, pid_distance>>
vars ==
  <<flagVars, connVars, slotVars, now, pidVars, calibVars, serverVars, ledVars, legVars, servo, trackVars, rpcVars,
    out>>

\* ------------------------------------------------------------ device tables
\* HexapodDevice._LEG_CHANNELS
LEG_CHANNELS ==
  <<  <<15, 14, 13>>, <<12, 11, 10>>, <<9, 8, 31>>,
      <<22, 23, 27>>, <<19, 20, 21>>, <<16, 17, 18>>  >>

Channels ==
  {ChanHeadV, ChanHeadH} \cup {LEG_CHANNELS[l + 1][j] : l \in Legs, j \in 1..LegLen}

\* control.calibration_angles of a robot that needs no correction.
ZeroCalibration == [l \in Legs |-> <<0, 0, 0>>]

NoInput == <<>>

HomeTable == [l \in Legs |-> <<HomeX, 0, 0>>]

\* The reachability validator of the motion executor, on one table.
Reachable(p) ==
  LET d == p[1] * p[1] + p[2] * p[2] + p[3] * p[3]
  IN  d >= MinReach * MinReach /\ d <= MaxReach * MaxReach

check_point_validity(table) == \A l \in Legs : Reachable(table[l])

\* --------------------------------------------------------------- envelopes
NullId == "null"

ok_response(req_id, result) == [id |-> req_id, ok |-> TRUE, body |-> result]
error_response(req_id, message) == [id |-> req_id, ok |-> FALSE, body |-> message]

\* dispatch, line 101: f"{type(exc).__name__}: {exc}".
exc_text(kind, message) == kind \o ": " \o message

\* f"{type(exc).__name__}: {exc}" for the exceptions the device raises.
ErrManual == "RuntimeError: Stop motion and ball tracking before manual leg control."
ErrLegIndex == "ValueError: leg_index must be in [0, 5]"
ErrLegRange == "ValueError: Leg position out of range."
ErrLegsRange == "ValueError: Leg positions out of range."
ErrPositionsLen == "ValueError: positions must contain 6 items."
ErrPositionShape == "ValueError: Each position must be [x, y, z]."
ErrAnglesLen == "ValueError: angles must contain 6 items."
ErrAngleShape == "ValueError: Each angle entry must be [a, b, c]."
ErrInt == "ValueError: invalid literal for int() with base 10"
ErrNoLen == "TypeError: object of type 'int' has no len()"
None == "null"

\* A handler thread outside any device call.
IdleLoc == [method |-> "", id |-> NullId, batch |-> <<>>, i |-> 0, prev |-> HomeTable]

\* _TrackingPID.__init__, lines 19-26, and the set point given at lines 71-72;
\* the gains in thousandths.
_TrackingPID(p, i, d, set_point) ==
  [kp |-> p, ki |-> i, kd |-> d, set_point |-> set_point, i_error |-> 0, last_error |-> 0,
   output |-> 0, delta |-> 0]

\* ------------------------------------------------------------------- Init
InitDevice ==
  /\ moving = FALSE
  /\ since_move = "none"
  /\ ball_active = FALSE
  /\ ball_tracking = FALSE
  /\ ball_stop_set = FALSE
  /\ move_speed = DefaultSpeed
  /\ last_call = "other"
  /\ tick_centred = FALSE
  /\ connected = FALSE
  /\ servo_power = TRUE
  /\ streaming = FALSE
  /\ command_queue = <<"", "", "", "", "", "">>
  /\ timeout = 0
  /\ cmd_by = "init"
  /\ ts_by = "init"
  /\ rpc_ts = 0
  /\ track_ts = 0
  /\ now = 0
  /\ led_thread = "none"
  /\ led_command = <<>>
  /\ live_leds = 0
  /\ forced = {}
  /\ leg_positions = HomeTable
  /\ applied = HomeTable
  /\ servo = [c \in Channels |-> NoAngle]
  /\ tpc = "dead"
  /\ centred = FALSE
  /\ live_loops = 0
  /\ lock = 0
  /\ pc = [w \in Threads |-> IF w = MainThread THEN "serve_forever" ELSE "idle"]
  /\ loc = [w \in Threads |-> IdleLoc]
  /\ unanswered = {}
  /\ listening = TRUE
  /\ socket_path = TRUE
  /\ shutdown_request = FALSE
  /\ shutdown_threads = 0
  /\ closing = <<>>
  /\ joint_in = [l \in Legs |-> NoInput]
  /\ pid_x = _TrackingPID(50, 5, 20, 180)
  /\ pid_distance = _TrackingPID(300, 50, 50, 60)
  /\ out = [w |-> 0, env |-> ok_response(NullId, None)]

Init == InitDevice /\ calibration_angles = ZeroCalibration

\* ------------------------------------------------------------- tracking PID
\* A compute that lets the integral grow without bound.
compute_last_error_kept(pid, feedback_val) ==
  LET error == pid.set_point - feedback_val
      i_sum == pid.i_error + error
      i_error == IF i_sum < 0 - i_saturation THEN 0 - i_saturation
                 ELSE IF i_sum > i_saturation THEN i_saturation ELSE i_sum
      output == pid.kp * error + pid.ki * i_error + pid.kd * (error - pid.last_error)
  IN  [pid EXCEPT !.i_error = i_error, !.output = 0 - output,
                  !.delta = error - pid.last_error]

compute_unclamped(pid, feedback_val) ==
  LET error == pid.set_point - feedback_val
      i_error == pid.i_error + error
      output == pid.kp * error + pid.ki * i_error + pid.kd * (error - pid.last_error)
  IN  [pid EXCEPT !.i_error = i_error, !.last_error = error, !.output = 0 - output,
                  !.delta = error - pid.last_error]

\* A compute whose integral term opposes the error.
compute_integral_reversed(pid, feedback_val) ==
  LET error == pid.set_point - feedback_val
      i_sum == pid.i_error + error
      i_error == IF i_sum < 0 - i_saturation THEN 0 - i_saturation
                 ELSE IF i_sum > i_saturation THEN i_saturation
                 ELSE i_sum
      output == pid.kp * error - pid.ki * i_error + pid.kd * (error - pid.last_error)
  IN  [pid EXCEPT !.i_error = i_error, !.last_error = error, !.output = 0 - output,
                  !.delta = error - pid.last_error]

\* _TrackingPID.compute, lines 29-39, with the gains and the output in
\* thousandths: the PID after the call, output being the value returned.
compute(pid, feedback_val) ==
  LET error == pid.set_point - feedback_val
      i_sum == pid.i_error + error
      i_error == IF i_sum < 0 - i_saturation THEN 0 - i_saturation
                 ELSE IF i_sum > i_saturation THEN i_saturation
                 ELSE i_sum
      output == pid.kp * error + pid.ki * i_error + pid.kd * (error - pid.last_error)
  IN  [pid EXCEPT !.i_error = i_error, !.last_error = error, !.output = 0 - output,
                  !.delta = error - pid.last_error]

\* Python's round() of n / d for d > 0: to the nearest integer, halves to the
\* even one.
round(n, d) ==
  LET q == n \div d
      r == n % d
  IN  IF 2 * r < d THEN q
      ELSE IF 2 * r > d THEN q + 1
      ELSE IF q % 2 = 0 THEN q ELSE q + 1

\* ------------------------------------------------------------- RPC plumbing
\* The lock never makes a thread wait.
NoLock(w) == TRUE

\* `with self.lock` (an RLock): free, or already held by this thread.
LockAvailable(w) == lock \in {0, w}

\* A handler thread that has read a request line and may enter the device.
CanCall(w) == pc[w] = "idle" /\ LockAvailable(w)

Send(w, env) == out' = [w |-> w, env |-> env]

\* dispatch() returning from a call that took one step: the lock is taken and
\* released within the step.
Reply(w, req_id, err, result) ==
  /\ Send(w, IF err = "" THEN ok_response(req_id, result) ELSE error_response(req_id, err))
  /\ UNCHANGED rpcVars

\* dispatch() entering a call that takes several steps.
Enter(w, at, locals) ==
  /\ lock' = w
  /\ pc' = [pc EXCEPT ![w] = at]
  /\ loc' = [loc EXCEPT ![w] = locals]
  /\ unanswered' = unanswered \cup {w}

\* A return that keeps the lock.
LeaveHolding(w, err, result) ==
  /\ lock' = lock
  /\ pc' = [pc EXCEPT ![w] = "idle"]
  /\ loc' = [loc EXCEPT ![w] = IdleLoc]
  /\ unanswered' = unanswered \ {w}
  /\ Send(w, IF err = "" THEN ok_response(loc[w].id, result)
             ELSE error_response(loc[w].id, err))

\* dispatch() returning from a call that took several steps.
Leave(w, err, result) ==
  /\ lock' = 0
  /\ pc' = [pc EXCEPT ![w] = "idle"]
  /\ loc' = [loc EXCEPT ![w] = IdleLoc]
  /\ unanswered' = unanswered \ {w}
  /\ Send(w, IF err = "" THEN ok_response(loc[w].id, result)
             ELSE error_response(loc[w].id, err))

\* server_close, lines 112-119: an attempt made by the closing thread has returned
\* or raised; the lock is kept and the next statement of server_close follows.
Attempted(w, raised) ==
  /\ pc' = [pc EXCEPT ![w] = IF loc[w].method = "ball_stop" THEN "disconnect" ELSE "close"]
  /\ loc' = [loc EXCEPT ![w] = IdleLoc]
  /\ unanswered' = unanswered \ {w}
  /\ closing' = Append(closing, [op |-> loc[w].method, raised |-> raised, locked |-> lock = w])
  /\ UNCHANGED <<lock, out, listening, socket_path, shutdown_request, shutdown_threads>>

\* ---------------------------------------------------------- leg safety layer
\* _ensure_manual_leg_allowed: does not raise.
manual_leg_allowed == ~(moving \/ ball_active)

\* An index check that lets 6 through.
leg_index_upto(leg_index) == ~(leg_index < 0 \/ leg_index > NumLegs)

\* _assert_leg_index: does not raise.
leg_index_ok(leg_index) == ~(leg_index < 0 \/ leg_index > MaxLegIndex)

CanInt3(a, b, c) == CanInt(a) /\ CanInt(b) /\ CanInt(c)

\* Python's indexing of a list of six: a negative index counts from the end,
\* and an index beyond either end raises IndexError.
IndexRaises(leg_index) == leg_index < 0 - NumLegs \/ leg_index >= NumLegs
PyIndex(leg_index) == IF leg_index < 0 THEN leg_index + NumLegs ELSE leg_index
ErrIndex == "IndexError: list index out of range"

\* set_leg_position, line 295: the leg's previous position is put back.
RestoreLeg(table, leg_index, prev) == [table EXCEPT ![leg_index] = prev]

\* No restore: the table stays as written.
KeepTable(table, prev) == table

\* set_leg_positions, lines 306 and 310: the snapshot becomes the table again.
RestoreTable(table, prev) == prev

\* control.set_leg_angles(): the servos are driven to the table.
set_leg_angles(table) == table

\* set_leg_position as a function of the table: the new table, whether the
\* servos were driven, and the exception raised ("" for none).
leg_position(table, leg_index, x, y, z) ==
  IF ~manual_leg_allowed THEN [table |-> table, drive |-> FALSE, err |-> ErrManual]
  ELSE IF ~leg_index_ok(leg_index) THEN [table |-> table, drive |-> FALSE, err |-> ErrLegIndex]
  ELSE IF IndexRaises(leg_index) THEN [table |-> table, drive |-> FALSE, err |-> ErrIndex]
  ELSE IF ~CanInt3(x, y, z) THEN [table |-> table, drive |-> FALSE, err |-> ErrInt]
  ELSE LET prev == table[PyIndex(leg_index)]
           written == [table EXCEPT ![PyIndex(leg_index)] = <<int(x), int(y), int(z)>>]
       IN  IF ~check_point_validity(written)
           THEN [table |-> RestoreLeg(written, PyIndex(leg_index), prev), drive |-> FALSE,
                 err |-> ErrLegRange]
           ELSE [table |-> written, drive |-> TRUE, err |-> ""]

set_leg_position(w, req_id, leg_index, x, y, z) ==
  /\ CanCall(w)
  /\ LET r == leg_position(leg_positions, leg_index, x, y, z)
     IN  /\ leg_positions' = r.table
         /\ applied' = IF r.drive THEN set_leg_angles(r.table) ELSE applied
         /\ Reply(w, req_id, r.err, None)
  /\ UNCHANGED <<flagVars, connVars, slotVars, now, pidVars, calibVars, serverVars, ledVars, servo, trackVars>>

\* set_leg_positions, lines 300-303: the checks before the loop and the snapshot.
set_leg_positions(w, req_id, positions) ==
  /\ CanCall(w)
  /\ IF ~manual_leg_allowed THEN Reply(w, req_id, ErrManual, None)
     ELSE IF Len(positions) # NumLegs THEN Reply(w, req_id, ErrPositionsLen, None)
     ELSE /\ Enter(w, "legs", [method |-> "set_leg_positions", id |-> req_id,
                               batch |-> positions, i |-> 0, prev |-> leg_positions])
          /\ UNCHANGED out
  /\ UNCHANGED <<flagVars, connVars, slotVars, now, pidVars, calibVars, serverVars, ledVars, legVars, servo, trackVars>>

\* set_leg_positions, lines 304-308: one turn of the loop.
set_leg_positions_entry(w) ==
  /\ pc[w] = "legs"
  /\ loc[w].i < NumLegs
  /\ LET i == loc[w].i
         position == loc[w].batch[i + 1]
     IN  IF ~position.seq
         THEN Leave(w, ErrNoLen, None) /\ UNCHANGED leg_positions
         ELSE IF Len(position.items) # LegLen
         THEN /\ leg_positions' = RestoreTable(leg_positions, loc[w].prev)
              /\ Leave(w, ErrPositionShape, None)
         ELSE IF ~CanInt3(position.items[1], position.items[2], position.items[3])
         THEN Leave(w, ErrInt, None) /\ UNCHANGED leg_positions
         ELSE /\ leg_positions' =
                   [leg_positions EXCEPT
                      ![i] = <<int(position.items[1]), int(position.items[2]),
                               int(position.items[3])>>]
              /\ loc' = [loc EXCEPT ![w].i = i + 1]
              /\ UNCHANGED <<lock, pc, unanswered, out>>
  /\ UNCHANGED <<flagVars, connVars, slotVars, now, pidVars, calibVars, serverVars, ledVars, applied, servo, trackVars>>

\* set_leg_positions, lines 309-312: the validator, then restore or drive.
set_leg_positions_check(w) ==
  /\ pc[w] = "legs"
  /\ loc[w].i = NumLegs
  /\ IF ~check_point_validity(leg_positions)
     THEN /\ leg_positions' = RestoreTable(leg_positions, loc[w].prev)
          /\ UNCHANGED applied
          /\ Leave(w, ErrLegsRange, None)
     ELSE /\ applied' = set_leg_angles(leg_positions)
          /\ UNCHANGED leg_positions
          /\ Leave(w, "", None)
  /\ UNCHANGED <<flagVars, connVars, slotVars, now, pidVars, calibVars, serverVars, ledVars, servo, trackVars>>

\* The three writes with the angles paired to the channels in reverse.
WriteLegReversed(sv, leg_index, angles) ==
  [c \in Channels |->
     IF \E j \in 1..LegLen : LEG_CHANNELS[leg_index + 1][j] = c
     THEN angles[LegLen + 1 - (CHOOSE j \in 1..LegLen : LEG_CHANNELS[leg_index + 1][j] = c)]
     ELSE sv[c]]

\* The three writes of set_leg_servo_angles, lines 317-320.
WriteLeg(sv, leg_index, angles) ==
  [c \in Channels |->
     IF \E j \in 1..LegLen : LEG_CHANNELS[leg_index + 1][j] = c
     THEN angles[CHOOSE j \in 1..LegLen : LEG_CHANNELS[leg_index + 1][j] = c]
     ELSE sv[c]]

\* set_leg_servo_angles as a function of the servo channels.
leg_servo_angles(sv, leg_index, a, b, c) ==
  IF ~manual_leg_allowed THEN [servo |-> sv, err |-> ErrManual]
  ELSE IF ~leg_index_ok(leg_index) THEN [servo |-> sv, err |-> ErrLegIndex]
  ELSE IF IndexRaises(leg_index) THEN [servo |-> sv, err |-> ErrIndex]
  ELSE IF ~CanInt3(a, b, c) THEN [servo |-> sv, err |-> ErrInt]
  ELSE [servo |-> WriteLeg(sv, PyIndex(leg_index), <<int(a), int(b), int(c)>>), err |-> ""]

\* control.restrict_value
restrict_value(value, lo, hi) == Max(lo, Min(hi, value))

\* A transform that treats every leg as a leg of the group 0..2.
_apply_calibration_one_side(leg_index, a, b, c) ==
  LET calib == calibration_angles[PyIndex(leg_index)]
  IN  << restrict_value(a + calib[1], 0, 180),
         restrict_value(90 - (b + calib[2]), 0, 180),
         restrict_value(c + calib[3], 0, 180) >>

\* _apply_calibration, lines 347-356.
_apply_calibration(leg_index, a, b, c) ==
  LET calib == calibration_angles[PyIndex(leg_index)]
  IN  IF leg_index < 3
      THEN << restrict_value(a + calib[1], 0, 180),
              restrict_value(90 - (b + calib[2]), 0, 180),
              restrict_value(c + calib[3], 0, 180) >>
      ELSE << restrict_value(a + calib[1], 0, 180),
              restrict_value(90 + b + calib[2], 0, 180),
              restrict_value(180 - (c + calib[3]), 0, 180) >>

\* set_leg_joint_angles as a function of the servo channels.
leg_joint_angles(sv, leg_index, a, b, c) ==
  IF ~manual_leg_allowed THEN [servo |-> sv, err |-> ErrManual]
  ELSE IF ~leg_index_ok(leg_index) THEN [servo |-> sv, err |-> ErrLegIndex]
  ELSE IF ~CanInt3(a, b, c) THEN [servo |-> sv, err |-> ErrInt]
  ELSE IF IndexRaises(leg_index) THEN [servo |-> sv, err |-> ErrIndex]
  ELSE LET servo_angles == _apply_calibration(leg_index, int(a), int(b), int(c))
       IN  leg_servo_angles(sv, leg_index, I(servo_angles[1]), I(servo_angles[2]),
                            I(servo_angles[3]))

\* The loops of set_leg_servo_angles_all (joint = FALSE) and
\* set_leg_joint_angles_all (joint = TRUE), from entry n on.
RECURSIVE angles_loop(_, _, _, _)
angles_loop(sv, angles, n, joint) ==
  IF n = Len(angles) THEN [servo |-> sv, err |-> ""]
  ELSE LET leg_angles == angles[n + 1]
       IN  IF ~leg_angles.seq THEN [servo |-> sv, err |-> ErrNoLen]
           ELSE IF Len(leg_angles.items) # LegLen THEN [servo |-> sv, err |-> ErrAngleShape]
           ELSE LET r == IF joint
                         THEN leg_joint_angles(sv, n, leg_angles.items[1],
                                               leg_angles.items[2], leg_angles.items[3])
                         ELSE leg_servo_angles(sv, n, leg_angles.items[1],
                                               leg_angles.items[2], leg_angles.items[3])
                IN  IF r.err # "" THEN r ELSE angles_loop(r.servo, angles, n + 1, joint)

leg_angles_all(sv, angles, joint) ==
  IF ~manual_leg_allowed THEN [servo |-> sv, err |-> ErrManual]
  ELSE IF Len(angles) # NumLegs THEN [servo |-> sv, err |-> ErrAnglesLen]
  ELSE angles_loop(sv, angles, 0, joint)

\* The joint angles behind each leg's channels after a loop over angles: the
\* entries before the first that raises have been written.
joint_inputs(angles, joint) ==
  LET raises(n) ==
        \/ ~angles[n + 1].seq
        \/ Len(angles[n + 1].items) # LegLen
        \/ ~CanInt3(angles[n + 1].items[1], angles[n + 1].items[2], angles[n + 1].items[3])
      written == IF leg_angles_all(servo, angles, joint).err \in {ErrManual, ErrAnglesLen}
                 THEN 0
                 ELSE Cardinality({n \in 0..(Len(angles) - 1) :
                                     \A m \in 0..n : ~raises(m)})
  IN  [l \in Legs |->
         IF l >= written THEN joint_in[l]
         ELSE IF joint
         THEN <<int(angles[l + 1].items[1]), int(angles[l + 1].items[2]),
                int(angles[l + 1].items[3])>>
         ELSE NoInput]

ServoCall(w, req_id, r) ==
  /\ CanCall(w)
  /\ servo' = r.servo
  /\ Reply(w, req_id, r.err, None)
  /\ UNCHANGED <<flagVars, connVars, slotVars, now, pidVars, calibration_angles, serverVars, ledVars,
                 legVars, trackVars>>

set_leg_servo_angles(w, req_id, leg_index, a, b, c) ==
  LET r == leg_servo_angles(servo, leg_index, a, b, c)
  IN  /\ ServoCall(w, req_id, r)
      /\ joint_in' = IF r.err = "" THEN [joint_in EXCEPT ![PyIndex(leg_index)] = NoInput]
                     ELSE joint_in

set_leg_servo_angles_all(w, req_id, angles) ==
  /\ ServoCall(w, req_id, leg_angles_all(servo, angles, FALSE))
  /\ joint_in' = joint_inputs(angles, FALSE)

set_leg_joint_angles(w, req_id, leg_index, a, b, c) ==
  LET r == leg_joint_angles(servo, leg_index, a, b, c)
  IN  /\ ServoCall(w, req_id, r)
      /\ joint_in' = IF r.err = ""
                     THEN [joint_in EXCEPT ![PyIndex(leg_index)] = <<int(a), int(b), int(c)>>]
                     ELSE joint_in

set_leg_joint_angles_all(w, req_id, angles) ==
  /\ ServoCall(w, req_id, leg_angles_all(servo, angles, TRUE))
  /\ joint_in' = joint_inputs(angles, TRUE)

\* ------------------------------------------------------------ command facade
\* command.COMMAND
CMD_MOVE == "CMD_MOVE"
CMD_BALANCE == "CMD_BALANCE"
CMD_POSITION == "CMD_POSITION"
CMD_ATTITUDE == "CMD_ATTITUDE"

Locals(method, req_id) == [IdleLoc EXCEPT !.method = method, !.id = req_id]

\* `self.control.command_queue = ...` by a handler thread: a new RPC-driven
\* issuance begins; a timestamp of the previous one is now an older issuance's.
WriteCommand(cmd_list) ==
  /\ command_queue' = cmd_list
  /\ cmd_by' = "rpc"
  /\ ts_by' = IF ts_by = "rpc" THEN "old" ELSE ts_by
  /\ UNCHANGED <<timeout, rpc_ts, track_ts>>

\* `self.control.timeout = time.time()` by a handler thread.
WriteTimeout ==
  /\ timeout' = now
  /\ ts_by' = "rpc"
  /\ rpc_ts' = now
  /\ UNCHANGED <<command_queue, cmd_by, track_ts>>

\* move, line 102: whether evaluating the condition raises (`and` stops at the
\* first operand that is false), and its value.
MovingRaises(x, y, angle) ==
  \/ ~CanInt(x)
  \/ int(x) = 0 /\ ~CanInt(y)
  \/ int(x) = 0 /\ int(y) = 0 /\ ~CanInt(angle)

Moving(x, y, angle) ==
  ~(int(x) = 0 /\ (int(y) = 0 /\ (int(angle) = 0)))

\* A Move that carries the speed the device was built with.
MoveCommandDefaultSpeed(gait, x, y, tempo, angle) ==
  <<CMD_MOVE, str(int(gait)), str(int(x)), str(int(y)), str(DefaultSpeed), str(int(angle))>>

\* move, lines 103-110.
MoveCommand(gait, x, y, speed, angle) ==
  <<CMD_MOVE, str(int(gait)), str(int(x)), str(int(y)), str(speed), str(int(angle))>>

\* move, lines 101-111; the timestamp follows in write_timeout.
move_body(w, req_id, method, gait, x, y, angle, moving0) ==
  /\ ball_active' = FALSE
  /\ IF MovingRaises(x, y, angle)
     THEN /\ moving' = moving0
          /\ last_call' = "other"
          /\ UNCHANGED <<since_move, slotVars>>
          /\ Reply(w, req_id, ErrInt, None)
     ELSE /\ moving' = Moving(x, y, angle)
          /\ since_move' = IF Moving(x, y, angle) THEN "moved"
                           ELSE IF method = "stop" /\ since_move # "none" THEN "stopped"
                           ELSE "none"
          /\ IF ~(CanInt(gait) /\ CanInt3(x, y, angle))
             THEN /\ last_call' = "other"
                  /\ UNCHANGED slotVars
                  /\ Reply(w, req_id, ErrInt, None)
             ELSE /\ WriteCommand(MoveCommand(gait, x, y, move_speed, angle))
                  /\ Enter(w, "ts", Locals(method, req_id))
                  /\ UNCHANGED <<last_call, out>>

move(w, req_id, gait, x, y, angle) ==
  /\ CanCall(w)
  /\ move_body(w, req_id, "move", gait, x, y, angle, moving)
  /\ UNCHANGED <<ball_tracking, ball_stop_set, move_speed, tick_centred, connVars, now, pidVars, calibVars, serverVars, ledVars,
                 legVars, servo, trackVars>>

\* A stop that also signals the tracking loop to stop.
stop_signalling(w, req_id) ==
  /\ CanCall(w)
  /\ move_body(w, req_id, "stop", I(1), I(0), I(0), I(0), FALSE)
  /\ ball_stop_set' = TRUE
  /\ UNCHANGED <<ball_tracking, move_speed, tick_centred, connVars, now, pidVars, calibVars, serverVars, ledVars, legVars,
                 servo, trackVars>>

\* stop, lines 115-116.
stop(w, req_id) ==
  /\ CanCall(w)
  /\ move_body(w, req_id, "stop", I(1), I(0), I(0), I(0), FALSE)
  /\ UNCHANGED <<ball_tracking, ball_stop_set, move_speed, tick_centred, connVars, now, pidVars, calibVars, serverVars, ledVars,
                 legVars, servo, trackVars>>

\* A posture command: balance, position, attitude, up to the command write.
Posture(w, req_id, method, raises, cmd_list) ==
  /\ CanCall(w)
  /\ IF raises
     THEN UNCHANGED slotVars /\ Reply(w, req_id, ErrInt, None)
     ELSE /\ WriteCommand(cmd_list)
          /\ Enter(w, "ts", Locals(method, req_id))
          /\ UNCHANGED out
  /\ UNCHANGED <<flagVars, connVars, now, pidVars, calibVars, serverVars, ledVars, legVars, servo, trackVars>>

balance(w, req_id, on) ==
  Posture(w, req_id, "balance", FALSE, <<CMD_BALANCE, IF on THEN "1" ELSE "0">>)

position(w, req_id, x, y, z) ==
  Posture(w, req_id, "position", ~CanInt3(x, y, z),
          <<CMD_POSITION, str(int(x)), str(int(y)), str(int(z))>>)

attitude(w, req_id, roll, pitch, yaw) ==
  Posture(w, req_id, "attitude", ~CanInt3(roll, pitch, yaw),
          <<CMD_ATTITUDE, str(int(roll)), str(int(pitch)), str(int(yaw))>>)

\* The second write of an issuance, `self.control.timeout = time.time()`, and the
\* return; for disconnect, lines 85-88 follow.
write_timeout(w) ==
  /\ pc[w] = "ts"
  /\ WriteTimeout
  /\ IF loc[w].method = "disconnect"
     THEN /\ servo_power' = FALSE
          /\ streaming' = FALSE
          /\ connected' = FALSE
     ELSE UNCHANGED connVars
  /\ last_call' = IF loc[w].method = "ball_stop" THEN "ball_stop" ELSE "other"
  /\ IF w = MainThread THEN Attempted(w, FALSE) ELSE Leave(w, "", None) /\ UNCHANGED serverVars
  /\ UNCHANGED <<moving, since_move, ball_active, ball_tracking, ball_stop_set, move_speed,
                 tick_centred, now, pidVars, calibVars, ledVars, legVars, servo, trackVars>>

speed(w, req_id, tempo) ==
  /\ CanCall(w)
  /\ IF CanInt(tempo)
     THEN move_speed' = int(tempo) /\ Reply(w, req_id, "", str(int(tempo)))
     ELSE UNCHANGED move_speed /\ Reply(w, req_id, ErrInt, None)
  /\ UNCHANGED <<moving, since_move, ball_active, ball_tracking, ball_stop_set, last_call,
                 tick_centred, connVars, slotVars, now, pidVars, calibVars, serverVars, ledVars, legVars, servo, trackVars>>

connect(w, req_id) ==
  /\ CanCall(w)
  /\ streaming' = TRUE
  /\ connected' = TRUE
  /\ Reply(w, req_id, "", None)
  /\ UNCHANGED <<flagVars, servo_power, slotVars, now, pidVars, calibVars, serverVars, ledVars, legVars, servo, trackVars>>

\* ----------------------------------------------------------- ball tracking
\* A thread that is never seen alive.
never_alive(thread_pc) == FALSE

\* `self._ball_thread is not None and self._ball_thread.is_alive()`
is_alive(thread_pc) == thread_pc \notin {"none", "dead"}

\* ball_start, lines 186-193.
ball_start(w, req_id) ==
  /\ CanCall(w)
  /\ servo' = [servo EXCEPT ![ChanHeadV] = HeadCentre, ![ChanHeadH] = HeadCentre]
  /\ ball_active' = TRUE
  /\ ball_tracking' = TRUE
  /\ ball_stop_set' = FALSE
  /\ IF ~is_alive(tpc)
     THEN tpc' = "loop" /\ centred' = FALSE /\ live_loops' = live_loops + 1
     ELSE UNCHANGED trackVars
  /\ last_call' = IF is_alive(tpc) THEN "ball_start/running" ELSE "ball_start"
  /\ tick_centred' = FALSE
  /\ Reply(w, req_id, "", None)
  /\ UNCHANGED <<moving, since_move, move_speed, connVars, slotVars, now, pidVars, calibVars, serverVars, ledVars, legVars>>

\* stop() as called from ball_stop, line 203, up to the command write.
stop_body(w, method, req_id) ==
  /\ moving' = FALSE
  /\ since_move' = IF since_move # "none" THEN "stopped" ELSE "none"
  /\ WriteCommand(MoveCommand(I(1), I(0), I(0), move_speed, I(0)))
  /\ Enter(w, "ts", Locals(method, req_id))

\* ball_stop, lines 196-199, and on to stop() when no thread is alive.
ball_stop_body(w, method, req_id) ==
  /\ ball_active' = FALSE
  /\ ball_tracking' = FALSE
  /\ ball_stop_set' = TRUE
  /\ IF is_alive(tpc)
     THEN /\ Enter(w, "join", Locals(method, req_id))
          /\ UNCHANGED <<moving, since_move, slotVars>>
     ELSE stop_body(w, method, req_id)
  /\ UNCHANGED <<move_speed, last_call, tick_centred, connVars, now, pidVars, calibVars, serverVars, ledVars, legVars, servo,
                 trackVars, out>>

ball_stop(w, req_id) == CanCall(w) /\ ball_stop_body(w, "ball_stop", req_id)

\* A disconnect that leaves tracking alone.
disconnect_only(w, req_id) ==
  /\ CanCall(w)
  /\ Enter(w, "ts", Locals("disconnect", req_id))
  /\ UNCHANGED <<flagVars, connVars, slotVars, now, pidVars, calibVars, serverVars, ledVars, legVars, servo, trackVars, out>>

\* disconnect, line 84.
disconnect(w, req_id) == CanCall(w) /\ ball_stop_body(w, "disconnect", req_id)

\* Thread.stop_thread: the thread is gone.
stop_thread(thread_pc) == "dead"

\* A join that is not followed by the forced cancel.
ball_join_no_cancel(w) ==
  /\ pc[w] = "join"
  /\ stop_body(w, loc[w].method, loc[w].id)
  /\ UNCHANGED <<ball_active, ball_tracking, ball_stop_set, move_speed, last_call,
                 tick_centred, connVars, now, pidVars, calibVars, serverVars, ledVars, legVars, servo, trackVars, out>>

\* ball_stop, lines 200-203: join returns because the thread has ended, or the
\* second has passed and the thread is cancelled; then stop().
ball_join(w) ==
  /\ pc[w] = "join"
  /\ tpc' = IF is_alive(tpc) THEN stop_thread(tpc) ELSE tpc
  /\ live_loops' = IF is_alive(tpc) THEN live_loops - 1 ELSE live_loops
  /\ forced' = IF is_alive(tpc)
                THEN forced \cup {[kind |-> "ball", signalled |-> ball_stop_set,
                                    joined |-> TRUE]}
                ELSE forced
  /\ centred' = FALSE
  /\ stop_body(w, loc[w].method, loc[w].id)
  /\ UNCHANGED <<ball_active, ball_tracking, ball_stop_set, move_speed, last_call,
                 tick_centred, connVars, now, pidVars, calibVars, serverVars, led_thread, led_command, live_leds, legVars,
                 servo, out>>

\* ----------------------------------------------------------------- LED task
CMD_LED_MOD == "CMD_LED_MOD"
CMD_LED == "CMD_LED"

\* _run_led_command, lines 160-167: a live LED thread is cancelled by force, and
\* a new one is started with the command.
_run_led_command(w, req_id, data) ==
  /\ IF is_alive(led_thread)
     THEN /\ forced' = forced \cup {[kind |-> "led", signalled |-> FALSE, joined |-> FALSE]}
          /\ live_leds' = live_leds - 1 + 1
     ELSE /\ UNCHANGED forced
          /\ live_leds' = live_leds + 1
  /\ led_thread' = "run"
  /\ led_command' = data
  /\ Reply(w, req_id, "", None)

\* led_mode, lines 148-149.
led_mode(w, req_id, mode) ==
  /\ CanCall(w)
  /\ IF ~CanInt(mode)
     THEN UNCHANGED ledVars /\ Reply(w, req_id, ErrInt, None)
     ELSE _run_led_command(w, req_id, <<CMD_LED_MOD, str(int(mode))>>)
  /\ UNCHANGED <<flagVars, connVars, slotVars, now, pidVars, calibVars, serverVars, legVars, servo, trackVars>>

\* led_color, lines 151-157.
led_color(w, req_id, red, green, blue) ==
  /\ CanCall(w)
  /\ IF ~CanInt3(red, green, blue)
     THEN UNCHANGED ledVars /\ Reply(w, req_id, ErrInt, None)
     ELSE _run_led_command(w, req_id,
                           <<CMD_LED, str(int(red)), str(int(green)), str(int(blue))>>)
  /\ UNCHANGED <<flagVars, connVars, slotVars, now, pidVars, calibVars, serverVars, legVars, servo, trackVars>>

\* led.process_light_command returns: the LED thread ends.
led_exit ==
  /\ led_thread = "run"
  /\ led_thread' = "dead"
  /\ live_leds' = live_leds - 1
  /\ UNCHANGED <<flagVars, connVars, slotVars, now, pidVars, calibVars, serverVars, led_command, forced, legVars, servo,
                 trackVars, rpcVars, out>>

\* The two active states the wrong way round.
ball_state_flipped ==
  IF ball_active THEN (IF ball_tracking THEN "completed" ELSE "ongoing")
  ELSE "not tracking"

\* ball_state, lines 206-208.
ball_state_value ==
  IF ball_active THEN (IF ball_tracking THEN "ongoing" ELSE "completed")
  ELSE "not tracking"

ball_state(w, req_id) ==
  /\ CanCall(w)
  /\ Reply(w, req_id, "", ball_state_value)
  /\ UNCHANGED <<flagVars, connVars, slotVars, now, pidVars, calibVars, serverVars, ledVars, legVars, servo, trackVars>>

\* _ball_tracking_loop, lines 247-248.
ClampAngle(angle_out) == Max(0 - AngleClamp, Min(AngleClamp, int(angle_out)))
ClampStepUnbounded(step_out) == int(step_out)
ClampStep(step_out) == Max(0 - StepClamp, Min(StepClamp, int(step_out)))

\* `self.control.command_queue = ...` by the tracking thread.
TrackWriteCommand(cmd_list) ==
  /\ command_queue' = cmd_list
  /\ cmd_by' = "track"
  /\ ts_by' = IF ts_by = "track" THEN "old" ELSE ts_by
  /\ UNCHANGED <<timeout, rpc_ts, track_ts>>

\* The loop's exit test, line 215, with the stop signal set.
track_exit ==
  /\ tpc = "loop"
  /\ ball_stop_set
  /\ tpc' = "dead"
  /\ centred' = FALSE
  /\ live_loops' = live_loops - 1
  /\ UNCHANGED <<flagVars, connVars, slotVars, now, pidVars, calibVars, serverVars, ledVars, legVars, servo, rpcVars, out>>

track_no_frame_marking ==
  /\ tpc = "loop"
  /\ ~ball_stop_set
  /\ streaming' = TRUE
  /\ ball_tracking' = TRUE
  /\ UNCHANGED <<moving, since_move, ball_active, ball_stop_set, move_speed, last_call,
                 tick_centred, connected, servo_power, slotVars, now, pidVars, calibVars,
                 serverVars, ledVars, legVars, servo, trackVars, rpcVars, out>>

\* Lines 215-219: no frame; sleep and retry.
track_no_frame ==
  /\ tpc = "loop"
  /\ ~ball_stop_set
  /\ streaming' = TRUE
  /\ UNCHANGED <<flagVars, connected, servo_power, slotVars, now, pidVars, calibVars, serverVars, ledVars, legVars, servo, trackVars,
                 rpcVars, out>>

\* Lines 215-256 (a target found at centre_x with the radius given, in tenths of
\* a pixel) or 215-268 (none found).
track_frame(found, centre_x, radius) ==
  /\ tpc = "loop"
  /\ ~ball_stop_set
  /\ streaming' = TRUE
  /\ ball_tracking' = TRUE
  /\ IF found
     THEN LET distance == round(2700 * 10, 2 * radius)
              x == compute(pid_x, centre_x)
              d == compute(pid_distance, distance)
              angle == ClampAngle(M(x.output))
              step == ClampStep(M(d.output))
          IN  /\ pid_x' = x
              /\ pid_distance' = d
              /\ TrackWriteCommand(<<CMD_MOVE, "1", "0", str(step), str(move_speed),
                                     str(angle)>>)
              /\ centred' = (step = 0 /\ angle = 0)
     ELSE /\ TrackWriteCommand(<<CMD_MOVE, "1", "0", "0", str(move_speed), "0">>)
          /\ centred' = FALSE
          /\ UNCHANGED pidVars
  /\ tpc' = "ts"
  /\ tick_centred' = FALSE
  /\ UNCHANGED <<moving, since_move, ball_active, ball_stop_set, move_speed, last_call,
                 connected, servo_power, now, calibVars, serverVars, ledVars, legVars, servo, live_loops, rpcVars, out>>

target_found_any_radius(contours, m00, radius) == contours > 0 /\ m00 > 0

\* Lines 231-240: `center` is not None. contours is the number of contours, m00
\* the moment area of the largest one and radius that of its enclosing circle,
\* in tenths of a pixel.
target_found(contours, m00, radius) ==
  /\ contours > 0
  /\ m00 > 0
  /\ ~(radius < min_radius * 10)

\* Lines 215-256 or 215-268 of a tick on a frame with the contours given.
track_image(contours, m00, centre_x, radius) ==
  track_frame(target_found(contours, m00, radius), centre_x, radius)

\* The flag is left as line 242 set it.
tracking_cleared_off_centre(is_centred, tracking) == IF is_centred THEN tracking ELSE FALSE
tracking_kept(is_centred, tracking) == tracking

\* Lines 258-259: `if step == 0 and angle == 0: self._ball_tracking = False`.
tracking_after_tick(is_centred, tracking) == IF is_centred THEN FALSE ELSE tracking

\* Lines 257-259 or 269, and the sleep of line 271.
track_timeout ==
  /\ tpc = "ts"
  /\ timeout' = now
  /\ ts_by' = "track"
  /\ track_ts' = now
  /\ ball_tracking' = tracking_after_tick(centred, ball_tracking)
  /\ tpc' = "loop"
  /\ centred' = FALSE
  /\ tick_centred' = centred
  /\ UNCHANGED <<moving, since_move, ball_active, ball_stop_set, move_speed, last_call,
                 connVars, command_queue, cmd_by, rpc_ts, now, pidVars, calibVars, serverVars, ledVars, legVars, servo, live_loops,
                 rpcVars, out>>

\* time.time() advances.
Tick ==
  /\ now < MaxClock
  /\ now' = now + 1
  /\ UNCHANGED <<flagVars, connVars, slotVars, pidVars, calibVars, serverVars, ledVars, legVars,
                 servo, trackVars, rpcVars, out>>

\* --------------------------------------------------------------- RPC bridge
\* handle, lines 34-39: the line is not JSON.
bad_json(w) ==
  /\ pc[w] = "idle"
  /\ Send(w, error_response(NullId, "Invalid JSON"))
  /\ UNCHANGED <<flagVars, connVars, slotVars, now, pidVars, calibVars, serverVars, ledVars, legVars, servo, trackVars, rpcVars>>

\* dispatch, lines 67-70, on JSON that is not an object: message.get raises
\* AttributeError outside any try, and the handler thread ends.
not_an_object(w) ==
  /\ pc[w] = "idle"
  /\ pc' = [pc EXCEPT ![w] = "crashed"]
  /\ unanswered' = unanswered \cup {w}
  /\ UNCHANGED <<flagVars, connVars, slotVars, now, pidVars, calibVars, serverVars, ledVars, legVars, servo, trackVars, lock, loc, out>>

\* handle, line 35, on a line that is not UTF-8: json.loads raises
\* UnicodeDecodeError, which is not a JSONDecodeError, and the handler thread ends.
undecodable_line(w) ==
  /\ pc[w] = "idle"
  /\ pc' = [pc EXCEPT ![w] = "crashed"]
  /\ unanswered' = unanswered \cup {w}
  /\ UNCHANGED <<flagVars, connVars, slotVars, now, pidVars, calibVars, serverVars, ledVars, legVars, servo, trackVars, lock, loc, out>>

\* A rejection that does not carry the request's id.
rejected_null_id(w, req_id, message) ==
  /\ pc[w] = "idle"
  /\ Send(w, error_response(NullId, message))
  /\ UNCHANGED <<flagVars, connVars, slotVars, now, pidVars, calibVars, serverVars, ledVars, legVars, servo, trackVars, rpcVars>>

\* dispatch, lines 71-76: the checks on method, args and kwargs.
rejected(w, req_id, message) ==
  /\ pc[w] = "idle"
  /\ Send(w, error_response(req_id, message))
  /\ UNCHANGED <<flagVars, connVars, slotVars, now, pidVars, calibVars, serverVars, ledVars, legVars, servo, trackVars, rpcVars>>

\* dispatch, lines 78-79.
ping(w, req_id) ==
  /\ pc[w] = "idle"
  /\ Send(w, ok_response(req_id, "pong"))
  /\ UNCHANGED <<flagVars, connVars, slotVars, now, pidVars, calibVars, serverVars, ledVars, legVars, servo, trackVars, rpcVars>>

\* dispatch, lines 80-87.
status(w, req_id) ==
  /\ pc[w] = "idle"
  /\ Send(w, ok_response(req_id, IF connected THEN "connected" ELSE "not connected"))
  /\ UNCHANGED <<flagVars, connVars, slotVars, now, pidVars, calibVars, serverVars, ledVars, legVars, servo, trackVars, rpcVars>>

\* dispatch, line 92, on a method that is not a string: getattr raises TypeError
\* outside the try, and the handler thread ends.
method_not_a_string(w) ==
  /\ pc[w] = "idle"
  /\ pc' = [pc EXCEPT ![w] = "crashed"]
  /\ unanswered' = unanswered \cup {w}
  /\ UNCHANGED <<flagVars, connVars, slotVars, now, pidVars, calibVars, serverVars, ledVars, legVars, servo, trackVars, lock, loc, out>>

\* dispatch, lines 92-94.
unknown_method(w, req_id, method) ==
  /\ pc[w] = "idle"
  /\ Send(w, error_response(req_id, "Unknown method: " \o method))
  /\ UNCHANGED <<flagVars, connVars, slotVars, now, pidVars, calibVars, serverVars, ledVars, legVars, servo, trackVars, rpcVars>>

\* handle, lines 28-30: end of file; the connection is closed.
end_of_file(w) ==
  /\ pc[w] = "idle"
  /\ pc' = [pc EXCEPT ![w] = "closed"]
  /\ UNCHANGED <<flagVars, connVars, slotVars, now, pidVars, calibVars, serverVars, ledVars, legVars, servo, trackVars, lock, loc,
                 unanswered, out>>

\* serve_forever with ThreadingMixIn: a new connection gets a new handler thread.
accept(w) ==
  /\ pc[MainThread] = "serve_forever"
  /\ pc[w] \in {"closed", "crashed"}
  /\ pc' = [pc EXCEPT ![w] = "idle"]
  /\ unanswered' = unanswered \ {w}
  /\ UNCHANGED <<flagVars, connVars, slotVars, now, pidVars, calibVars, serverVars, ledVars, legVars, servo, trackVars, lock, loc, out>>

\* ------------------------------------------------------- server life cycle
\* dispatch, lines 88-90: the shutdown thread is started, and the response is
\* returned to handle.
shutdown(w, req_id) ==
  /\ pc[w] = "idle"
  /\ shutdown_threads < MaxShutdowns
  /\ shutdown_threads' = shutdown_threads + 1
  /\ pc' = [pc EXCEPT ![w] = "send"]
  /\ loc' = [loc EXCEPT ![w] = Locals("shutdown", req_id)]
  /\ unanswered' = unanswered \cup {w}
  /\ UNCHANGED <<flagVars, connVars, slotVars, now, pidVars, calibVars, listening, socket_path, shutdown_request,
                 closing, ledVars, legVars, servo, trackVars, lock, out>>

\* handle, line 41: the response to the shutdown request is written.
send_response(w) ==
  /\ pc[w] = "send"
  /\ Send(w, ok_response(loc[w].id, "shutting down"))
  /\ pc' = [pc EXCEPT ![w] = "idle"]
  /\ loc' = [loc EXCEPT ![w] = IdleLoc]
  /\ unanswered' = unanswered \ {w}
  /\ UNCHANGED <<flagVars, connVars, slotVars, now, pidVars, calibVars, serverVars, ledVars, legVars, servo,
                 trackVars, lock>>

\* _shutdown_after_response, lines 106-107: the sleep is over and shutdown() is
\* called.
_shutdown_after_response ==
  /\ shutdown_threads > 0
  /\ shutdown_threads' = shutdown_threads - 1
  /\ shutdown_request' = TRUE
  /\ UNCHANGED <<flagVars, connVars, slotVars, now, pidVars, calibVars, listening, socket_path, closing, ledVars,
                 legVars, servo, trackVars, rpcVars, out>>

\* main, lines 207-210: serve_forever sees the shutdown request at its next poll
\* and returns; server_close follows.
serve_forever(w) ==
  /\ pc[w] = "serve_forever"
  /\ shutdown_request
  /\ pc' = [pc EXCEPT ![w] = "server_close"]
  /\ UNCHANGED <<flagVars, connVars, slotVars, now, pidVars, calibVars, serverVars, ledVars, legVars, servo,
                 trackVars, lock, loc, unanswered, out>>

\* server_close, lines 110-113: the lock is taken and ball_stop is called.
server_close(w) ==
  /\ pc[w] = "server_close"
  /\ LockAvailable(w)
  /\ ball_stop_body(w, "ball_stop", NullId)

\* server_close, lines 116-117: disconnect is called.
server_close_disconnect(w) ==
  /\ pc[w] = "disconnect"
  /\ ball_stop_body(w, "disconnect", NullId)

\* An exception that leaves server_close: nothing after the raise is run.
server_close_unwound(w) ==
  /\ pc[w] \in {"join", "ts"}
  /\ pc' = [pc EXCEPT ![w] = "closed"]
  /\ loc' = [loc EXCEPT ![w] = IdleLoc]
  /\ unanswered' = unanswered \ {w}
  /\ closing' = Append(closing, [op |-> loc[w].method, raised |-> TRUE, locked |-> lock = w])
  /\ lock' = 0
  /\ UNCHANGED <<flagVars, connVars, slotVars, now, pidVars, calibVars, listening, socket_path, shutdown_request,
                 shutdown_threads, ledVars, legVars, servo, trackVars, out>>

\* server_close, lines 114-115 and 118-119: the call raises and the exception is
\* swallowed. ball_stop raises where it cancels the thread (stop_thread, line
\* 202); disconnect raises there too, or after stop() where it switches the servo
\* power (line 85).
server_close_except(w) ==
  /\ \/ /\ pc[w] = "join"
        /\ UNCHANGED slotVars
     \/ /\ pc[w] = "ts"
        /\ loc[w].method = "disconnect"
        /\ WriteTimeout
  /\ Attempted(w, TRUE)
  /\ UNCHANGED <<flagVars, connVars, now, pidVars, calibVars, ledVars, legVars, servo, trackVars>>

\* server_close, lines 120-123: the lock is released, the listening socket is
\* closed and the socket path is removed.
server_close_finally(w) ==
  /\ pc[w] = "close"
  /\ lock' = 0
  /\ listening' = FALSE
  /\ socket_path' = FALSE
  /\ pc' = [pc EXCEPT ![w] = "closed"]
  /\ UNCHANGED <<flagVars, connVars, slotVars, now, pidVars, calibVars, shutdown_request, shutdown_threads, closing,
                 ledVars, legVars, servo, trackVars, loc, unanswered, out>>

\* main returns after line 210 and the process ends: every daemon thread (handler,
\* tracking, LED, shutdown) ends with it.
process_exit(w) ==
  /\ pc[w] = "closed"
  /\ pc' = [t \in Threads |-> "exited"]
  /\ tpc' = IF is_alive(tpc) THEN "dead" ELSE tpc
  /\ live_loops' = 0
  /\ led_thread' = IF is_alive(led_thread) THEN "dead" ELSE led_thread
  /\ live_leds' = 0
  /\ shutdown_threads' = 0
  /\ UNCHANGED <<flagVars, connVars, slotVars, now, pidVars, calibVars, listening, socket_path, shutdown_request,
                 closing, led_command, forced, legVars, servo, centred, lock, loc, unanswered,
                 out>>

\* A request object as json.loads returns it: each key absent, or a JSON value.
Absent == [t |-> "absent", v |-> 0]
Null == [t |-> "null", v |-> 0]
Str(text) == [t |-> "str", v |-> text]
ListOf(items) == [t |-> "list", v |-> items]
Dict == [t |-> "dict", v |-> 0]

Message(req_id, method, args, kwargs) ==
  [id |-> req_id, method |-> method, args |-> args, kwargs |-> kwargs]

\* The callable attributes the class HexapodDevice defines, which getattr finds
\* (with those every Python object has, such as __init__).
DeviceMethods ==
  { "__init__", "connect", "disconnect", "servopower", "speed", "move", "stop", "balance", "position",
    "attitude", "head_vertical", "head_horizontal", "buzzer_on", "buzzer_off", "led_mode",
    "led_color", "_run_led_command", "camera_capture", "sonic", "power", "ball_start",
    "ball_stop", "ball_state", "_ball_tracking_loop", "_read_frame", "_assert_leg_index",
    "_ensure_manual_leg_allowed", "set_leg_position", "set_leg_positions",
    "set_leg_servo_angles", "set_leg_servo_angles_all", "set_leg_joint_angles",
    "set_leg_joint_angles_all", "_apply_calibration" }

ErrArguments == "TypeError: takes 1 positional argument but 2 were given"

\* dispatch, line 98: func(*args, **kwargs) with arguments the method does not
\* take raises TypeError inside the try.
bad_arguments(w, req_id) ==
  /\ CanCall(w)
  /\ Reply(w, req_id, ErrArguments, None)
  /\ UNCHANGED <<flagVars, connVars, slotVars, now, pidVars, calibVars, serverVars, ledVars, legVars, servo, trackVars>>

\* dispatch, lines 96-98, on "_apply_calibration": the helper runs and its list
\* is the result.
apply_calibration_call(w, req_id, leg_index, a, b, c) ==
  /\ CanCall(w)
  /\ Reply(w, req_id, "", ToString(_apply_calibration(int(leg_index), int(a), int(b), int(c))))
  /\ UNCHANGED <<flagVars, connVars, slotVars, now, pidVars, calibVars, serverVars, ledVars, legVars, servo, trackVars>>

\* dispatch, lines 96-98, on "_ball_tracking_loop": the handler thread runs the
\* loop's body under the dispatch lock. With the stop signal set the while test
\* of line 215 fails at once and the call returns None; otherwise the thread
\* stays in the loop.
ball_tracking_loop_call(w, req_id) ==
  /\ CanCall(w)
  /\ IF ball_stop_set
     THEN Reply(w, req_id, "", None)
     ELSE Enter(w, "loop", Locals("_ball_tracking_loop", req_id)) /\ UNCHANGED out
  /\ UNCHANGED <<flagVars, connVars, slotVars, now, pidVars, calibVars, serverVars, ledVars, legVars, servo, trackVars>>

\* Lines 215-271 run by handler thread w: one tick on a frame.
handler_loop_tick(w, found, centre_x, radius) ==
  /\ pc[w] = "loop"
  /\ ~ball_stop_set
  /\ streaming' = TRUE
  /\ IF found
     THEN LET distance == round(2700 * 10, 2 * radius)
              x == compute(pid_x, centre_x)
              d == compute(pid_distance, distance)
              angle == ClampAngle(M(x.output))
              step == ClampStep(M(d.output))
          IN  /\ pid_x' = x
              /\ pid_distance' = d
              /\ command_queue' = <<CMD_MOVE, "1", "0", str(step), str(move_speed),
                                    str(angle)>>
              /\ ball_tracking' = ~(step = 0 /\ angle = 0)
     ELSE /\ command_queue' = <<CMD_MOVE, "1", "0", "0", str(move_speed), "0">>
          /\ ball_tracking' = TRUE
          /\ UNCHANGED pidVars
  /\ cmd_by' = "track"
  /\ ts_by' = "track"
  /\ timeout' = now
  /\ track_ts' = now
  /\ UNCHANGED <<moving, since_move, ball_active, ball_stop_set, move_speed, last_call,
                 tick_centred, connected, servo_power, rpc_ts, now, calibVars, serverVars,
                 ledVars, legVars, servo, trackVars, rpcVars, out>>

\* dispatch, lines 96-98, for the methods the bridge is driven with.
call(w, req_id, method, args) ==
  \/ /\ method = "ball_state"
     /\ IF args = <<>> THEN ball_state(w, req_id) ELSE bad_arguments(w, req_id)
  \/ /\ method = "_apply_calibration"
     /\ IF Len(args) = 4 THEN apply_calibration_call(w, req_id, args[1], args[2], args[3], args[4])
        ELSE bad_arguments(w, req_id)
  \/ /\ method = "_ball_tracking_loop"
     /\ IF args = <<>> THEN ball_tracking_loop_call(w, req_id) ELSE bad_arguments(w, req_id)
  \/ /\ method = "set_leg_positions"
     /\ IF Len(args) = 1 THEN set_leg_positions(w, req_id, args[1])
        ELSE bad_arguments(w, req_id)

\* dispatch, lines 67-103, on a JSON object.
dispatch(w, message) ==
  LET req_id == message.id
      method == message.method
      args == IF message.args.t = "absent" THEN ListOf(<<>>) ELSE message.args
      kwargs == IF message.kwargs.t = "absent" THEN Dict ELSE message.kwargs
      well_formed == /\ method.t \notin {"absent", "null"}
                     /\ args.t = "list"
                     /\ kwargs.t = "dict"
      built_in == method \in {Str("ping"), Str("status"), Str("shutdown")}
  IN  \/ /\ method.t \in {"absent", "null"}
         /\ rejected(w, req_id, "Missing 'method'")
      \/ /\ method.t \notin {"absent", "null"}
         /\ args.t # "list"
         /\ rejected(w, req_id, "'args' must be a list")
      \/ /\ method.t \notin {"absent", "null"}
         /\ args.t = "list"
         /\ kwargs.t # "dict"
         /\ rejected(w, req_id, "'kwargs' must be a dict")
      \/ /\ well_formed
         /\ method = Str("ping")
         /\ ping(w, req_id)
      \/ /\ well_formed
         /\ method = Str("status")
         /\ status(w, req_id)
      \/ /\ well_formed
         /\ method = Str("shutdown")
         /\ shutdown(w, req_id)
      \/ /\ well_formed
         /\ method.t # "str"
         /\ method_not_a_string(w)
      \/ /\ well_formed
         /\ ~built_in
         /\ method.t = "str"
         /\ method.v \notin DeviceMethods
         /\ unknown_method(w, req_id, method.v)
      \/ /\ well_formed
         /\ ~built_in
         /\ method.t = "str"
         /\ method.v \in DeviceMethods
         /\ call(w, req_id, method.v, args.v)

\* ------------------------------------------------------------------ inputs
Ids == {"x"}

\* Leg positions: two the validator accepts, one it rejects.
PosA == <<I(120), I(50), I(0)>>
PosB == <<I(100), F(1), I(-60)>>
PosFar == <<I(300), I(0), I(0)>>
PosBad == <<I(120), S, I(0)>>

Batch(first, second, rest) == <<first, second, rest, rest, rest, rest>>

BatchA == Batch(List(PosA), List(PosA), List(PosA))
BatchB == Batch(List(PosB), List(PosB), List(PosB))
BatchFar == Batch(List(PosA), List(PosA), List(PosFar))
BatchBadInt == Batch(List(PosFar), List(PosBad), List(PosA))
BatchShortEntry == Batch(List(PosB), List(<<I(1), I(2)>>), List(PosA))
BatchNoLen == Batch(List(PosB), Scalar, List(PosA))
BatchFive == <<List(PosA), List(PosA), List(PosA), List(PosA), List(PosA)>>

PositionBatches ==
  {BatchA, BatchB, BatchFar, BatchBadInt, BatchShortEntry, BatchNoLen, BatchFive}

LegIndexes == {0 - 1, 0, 6}
LegTargets == {PosA, PosFar}

Angles == <<I(10), I(20), F(61)>>
AnglesGood == Batch(List(Angles), List(Angles), List(Angles))
AnglesShortEntry == Batch(List(Angles), List(<<I(1), I(2)>>), List(Angles))
AngleBatches == {AnglesGood, AnglesShortEntry}

\* move(gait, x, y, angle)
MoveArgs ==
  { <<I(1), I(0), I(0), I(0)>>, <<I(1), F(1), I(0), I(0)>>,
    <<I(1), I(0), I(5), I(0)>>, <<I(1), S, I(0), I(0)>> }

\* What a tracking tick sees: whether a target was found, the x of its centre
\* and its radius in tenths of a pixel. The target at the set points, and one far
\* to the right and far away.
FrameNone == <<FALSE, 0, 0>>
FrameCentred == <<TRUE, 180, 225>>
FrameFar == <<TRUE, 400, 120>>
Frames == {FrameNone, FrameCentred, FrameFar}

\* ------------------------------------------------------------ specifications
LegSetter(w, req_id, indexes, targets, batches, angles) ==
  \/ \E i \in indexes, p \in targets : set_leg_position(w, req_id, i, p[1], p[2], p[3])
  \/ \E b \in batches : set_leg_positions(w, req_id, b)
  \/ \E i \in indexes : set_leg_servo_angles(w, req_id, i, Angles[1], Angles[2], Angles[3])
  \/ \E b \in angles : set_leg_servo_angles_all(w, req_id, b)
  \/ \E i \in indexes : set_leg_joint_angles(w, req_id, i, Angles[1], Angles[2], Angles[3])
  \/ \E b \in angles : set_leg_joint_angles_all(w, req_id, b)

Motion(w, req_id, moves) ==
  \/ \E a \in moves : move(w, req_id, a[1], a[2], a[3], a[4])
  \/ stop(w, req_id)

Postures(w, req_id) ==
  \/ balance(w, req_id, TRUE)
  \/ position(w, req_id, I(0), I(0), I(10))
  \/ attitude(w, req_id, I(0), F(11), I(0))

Tracking(w, req_id) ==
  \/ ball_start(w, req_id)
  \/ ball_stop(w, req_id)
  \/ disconnect(w, req_id)

SlotSteps(w) ==
  \/ write_timeout(w)
  \/ ball_join(w)

LegSteps(w) ==
  \/ set_leg_positions_entry(w)
  \/ set_leg_positions_check(w)

Tracker(frames) ==
  \/ track_exit
  \/ track_no_frame
  \/ \E f \in frames : track_frame(f[1], f[2], f[3])
  \/ track_timeout

\* The facade and the leg safety layer behind one connection, with the tracking
\* thread.
Next ==
  \/ \E req_id \in Ids :
       \/ LegSetter(1, req_id, {5}, {PosA}, {BatchA, BatchBadInt}, {AnglesGood})
       \/ Motion(1, req_id, {<<I(1), I(0), I(0), I(0)>>, <<I(1), I(0), I(5), I(0)>>})
       \/ Postures(1, req_id)
       \/ Tracking(1, req_id)
  \/ SlotSteps(1)
  \/ LegSteps(1)
  \/ Tracker({FrameNone})

Spec == Init /\ [][Next]_vars

\* The leg safety layer on every kind of input, with move and stop.
NextLegs ==
  \/ \E req_id \in Ids :
       \/ LegSetter(1, req_id, LegIndexes, LegTargets, PositionBatches, AngleBatches)
       \/ Motion(1, req_id, {<<I(1), I(0), I(5), I(0)>>})
  \/ write_timeout(1)
  \/ LegSteps(1)

SpecLegs == Init /\ [][NextLegs]_vars

\* The writers of the command slot, with the clock.
NextSlot ==
  \/ \E req_id \in Ids :
       \/ Motion(1, req_id, MoveArgs)
       \/ Postures(1, req_id)
       \/ Tracking(1, req_id)
  \/ SlotSteps(1)
  \/ Tracker(Frames)
  \/ Tick

SpecSlot == Init /\ [][NextSlot]_vars

\* The motion and posture calls at every speed setting, with tracking started
\* and stopped in between.
Tempos == {I(3), F(9), S}

NextMotion ==
  \/ \E req_id \in Ids :
       \/ Motion(1, req_id, MoveArgs)
       \/ Postures(1, req_id)
       \/ \E tempo \in Tempos : speed(1, req_id, tempo)
       \/ ball_start(1, req_id)
       \/ ball_stop(1, req_id)
  \/ SlotSteps(1)
  \/ Tracker({FrameFar})
  \/ Tick

SpecMotion == Init /\ [][NextMotion]_vars

\* Ball tracking: the calls that start, stop and read it, the motion calls that
\* touch its flags, and the loop on every kind of frame.
NextTrack ==
  \/ \E req_id \in Ids :
       \/ Tracking(1, req_id)
       \/ ball_state(1, req_id)
       \/ connect(1, req_id)
       \/ Motion(1, req_id, {<<I(1), I(0), I(5), I(0)>>})
  \/ SlotSteps(1)
  \/ Tracker(Frames)

SpecTrack == Init /\ [][NextTrack]_vars

\* The background tasks: LED commands and the tracking loop, started and stopped
\* from every connection.
LedModes == {I(1), F(5), S}

NextLed ==
  \/ \E w \in Workers :
       \/ \E req_id \in Ids :
            \/ \E mode \in LedModes : led_mode(w, req_id, mode)
            \/ led_color(w, req_id, I(255), I(0), F(1))
            \/ ball_start(w, req_id)
            \/ ball_stop(w, req_id)
       \/ SlotSteps(w)
  \/ led_exit
  \/ Tracker({FrameNone})

SpecLed == Init /\ [][NextLed]_vars

\* The bridge: every connection's handler thread, on every kind of request line.
RpcBatches == {BatchA, BatchB, BatchFar, BatchFive}

\* The request objects the connections send.
MessagesWith(req_id) ==
  { Message(req_id, Absent, Absent, Absent),
    Message(req_id, Null, ListOf(<<>>), Dict),
    Message(req_id, Str("nope"), Absent, Absent),
    Message(req_id, Str("connected"), ListOf(<<>>), Absent),
    Message(req_id, Str("nope"), I(5), Absent),
    Message(req_id, Str("ball_state"), Null, Absent),
    Message(req_id, Str("ball_state"), ListOf(<<>>), ListOf(<<>>)),
    Message(req_id, Str("ping"), Absent, Absent),
    Message(req_id, Str("status"), Absent, Dict),
    Message(req_id, Str("ball_state"), Absent, Absent),
    Message(req_id, Str("ball_state"), ListOf(<<I(1)>>), Dict),
    Message(req_id, I(5), Absent, Absent) }
  \cup { Message(req_id, Str("set_leg_positions"), ListOf(<<b>>), Absent) : b \in RpcBatches }

Messages ==
  UNION { MessagesWith(req_id) : req_id \in Ids }
  \cup { Message(req_id, Str("shutdown"), Absent, Absent) : req_id \in Ids }
  \cup { Message(NullId, Str("nope"), Absent, Absent),
         Message(NullId, Str("ball_state"), Absent, Absent) }
  \cup { Message(req_id, Str("_apply_calibration"), ListOf(<<I(3), I(10), I(20), I(30)>>),
                 Absent) : req_id \in Ids }
  \cup { Message(req_id, Str("_ball_tracking_loop"), Absent, Absent) : req_id \in Ids }

NextRpc ==
  \/ \E w \in Workers :
       \/ bad_json(w)
       \/ undecodable_line(w)
       \/ \E message \in Messages : dispatch(w, message)
       \/ handler_loop_tick(w, FrameCentred[1], FrameCentred[2], FrameCentred[3])
       \/ send_response(w)
       \/ not_an_object(w)
       \/ end_of_file(w)
       \/ accept(w)
       \/ LegSteps(w)

SpecRpc == Init /\ [][NextRpc]_vars

\* The same, with a handler thread inside a several-step device call always
\* getting to its next step.
SpecRpcFair == SpecRpc /\ \A w \in Workers : WF_vars(LegSteps(w))

\* Calibration tables: none, the same offsets on every leg, and offsets that
\* differ between the two sides.
Offsets == <<4, 0 - 6, 9>>
CalibrationTables ==
  { ZeroCalibration,
    [l \in Legs |-> Offsets],
    [l \in Legs |-> IF l < 3 THEN Offsets ELSE <<0, 0, 0>>] }

\* Joint and servo angles: inside the range, and beyond it on either side.
JointAngles ==
  { <<I(10), I(20), F(61)>>,
    <<I(200), I(0 - 100), I(190)>>,
    <<I(0 - 20), I(100), I(0 - 10)>> }

CalibLegs == {0, 3, 5}

InitCalib == InitDevice /\ calibration_angles \in CalibrationTables

\* The servo and joint setters of single legs on a calibrated robot.
NextCalib ==
  \E req_id \in Ids, i \in CalibLegs, t \in JointAngles :
    \/ set_leg_joint_angles(1, req_id, i, t[1], t[2], t[3])
    \/ set_leg_servo_angles(1, req_id, i, t[1], t[2], t[3])

SpecCalib == InitCalib /\ [][NextCalib]_vars

\* Targets at the distance set point whose centre is at, or up to three pixels
\* left of, the x set point, and one centred target slightly too far away.
PidFrames == { <<TRUE, centre_x, 225>> : centre_x \in 177..180 } \cup { <<TRUE, 180, 220>> }

\* The tracking loop on a target that drifts near the set points.
NextPid ==
  \/ \E req_id \in Ids : ball_start(1, req_id)
  \/ \E f \in PidFrames : track_frame(f[1], f[2], f[3])
  \/ track_timeout

SpecPid == Init /\ [][NextPid]_vars

\* Targets beyond the clamps on either side and within them: near and to the
\* left (distance 10), and slightly off the set points (distance 68).
FrameNear == <<TRUE, 0, 1350>>
FrameOff == <<TRUE, 170, 200>>
ClampFrames == {FrameNone, FrameCentred, FrameFar, FrameNear, FrameOff}

\* The tracking loop on every kind of target while the speed is set and tracking
\* is started and stopped.
NextClamp ==
  \/ \E req_id \in Ids :
       \/ \E tempo \in Tempos : speed(1, req_id, tempo)
       \/ ball_start(1, req_id)
       \/ ball_stop(1, req_id)
  \/ SlotSteps(1)
  \/ Tracker(ClampFrames)

SpecClamp == Init /\ [][NextClamp]_vars

\* The tracking loop on a camera that often has no frame, started and stopped;
\* a loop that is stopped gets to run its exit test.
NextNoFrame ==
  \/ \E req_id \in Ids :
       \/ ball_start(1, req_id)
       \/ ball_stop(1, req_id)
  \/ SlotSteps(1)
  \/ Tracker({FrameCentred, FrameFar})
  \/ Tick

SpecNoFrame == Init /\ [][NextNoFrame]_vars /\ WF_vars(track_exit)

\* Tracking a target that stays at the set points, with the state read at any
\* moment.
NextCentred ==
  \/ \E req_id \in Ids :
       \/ ball_start(1, req_id)
       \/ ball_state(1, req_id)
       \/ ball_stop(1, req_id)
  \/ SlotSteps(1)
  \/ Tracker({FrameCentred})
  \/ Tick

SpecCentred == Init /\ [][NextCentred]_vars

\* What the contour search of a tick gives: the number of contours, the moment
\* area of the largest, the x of its centre and the radius of its enclosing
\* circle in tenths of a pixel. No contour; a single point; a thin line; a blob
\* of radius 6.9; one of radius exactly 7; the target at the set points; one far
\* off; one slightly off.
Images ==
  { <<0, 0, 0, 0>>, <<1, 0, 180, 0>>, <<1, 0, 180, 225>>, <<2, 40, 180, 69>>,
    <<1, 150, 180, 70>>, <<1, 1500, 180, 225>>, <<3, 400, 400, 120>>,
    <<1, 1200, 170, 200>> }

\* The tracking loop on every kind of contour.
NextDetect ==
  \/ \E req_id \in Ids : ball_start(1, req_id)
  \/ \E img \in Images : track_image(img[1], img[2], img[3], img[4])
  \/ track_timeout

SpecDetect == Init /\ [][NextDetect]_vars

\* The bridge from serving to the end of the process: connections that ask for
\* shutdown and drive tracking, the shutdown thread, and main.
NextShutdown ==
  \/ \E w \in Workers :
       \/ \E req_id \in Ids :
            \/ shutdown(w, req_id)
            \/ ball_start(w, req_id)
            \/ connect(w, req_id)
       \/ send_response(w)
       \/ end_of_file(w)
       \/ accept(w)
  \/ \E w \in Threads : SlotSteps(w)
  \/ _shutdown_after_response
  \/ serve_forever(MainThread)
  \/ server_close(MainThread)
  \/ server_close_disconnect(MainThread)
  \/ server_close_except(MainThread)
  \/ server_close_finally(MainThread)
  \/ process_exit(MainThread)
  \/ Tracker({FrameCentred})

SpecShutdown == Init /\ [][NextShutdown]_vars

\* ------------------------------------------------------------------ claims
Ints(p) == <<int(p[1]), int(p[2]), int(p[3])>>

\* A call of one of the six leg setters on connection 1, as Spec issues them.
LegSetterCall(req_id) ==
  LegSetter(1, req_id, {5}, {PosA}, {BatchA, BatchBadInt}, {AnglesGood})

LegsAndServos == <<leg_positions, applied, servo>>

\* C1: a leg setter called while the last move asked for motion, or while the
\* tracking loop is running, fails with the precondition error and changes
\* neither the leg table nor a servo channel.
C1_GateWhileMovingOrTracking ==
  [][\A req_id \in Ids :
       LegSetterCall(req_id) /\ (moving \/ tpc # "dead")
         => /\ out' = [w |-> 1, env |-> error_response(req_id, ErrManual)]
            /\ UNCHANGED LegsAndServos]_vars

\* C2: when the validator rejects the table set_leg_positions has filled in, or
\* the table set_leg_position has changed one leg of, the call fails with the
\* out-of-range error and the leg table is what it was before the call.
C2_RejectedWriteRestored ==
  [][/\ set_leg_positions_check(1) /\ ~check_point_validity(leg_positions)
          => /\ out'.env = error_response(loc[1].id, ErrLegsRange)
             /\ leg_positions' = loc[1].prev
     /\ \A req_id \in Ids, i \in Legs, p \in LegTargets :
          /\ set_leg_position(1, req_id, i, p[1], p[2], p[3])
          /\ manual_leg_allowed
          /\ ~check_point_validity([leg_positions EXCEPT ![i] = Ints(p)])
          => /\ out'.env = error_response(req_id, ErrLegRange)
             /\ UNCHANGED leg_positions]_vars

\* C2 witness: a batch was rejected by the validator over a table that an
\* earlier batch had written.
C2_Witness ==
  /\ out.env.body = ErrLegsRange
  /\ leg_positions = [l \in Legs |-> Ints(PosA)]

\* C3: whenever set_leg_positions fails, for whatever reason, the leg table is
\* what it was before the call.
C3_AllOrNothing ==
  [][pc[1] = "legs" /\ pc'[1] = "idle" /\ ~out'.env.ok
       => leg_positions' = loc[1].prev]_vars

\* The three setters that take a leg index, called with index i.
IndexedCall(req_id, i) ==
  \/ \E p \in LegTargets : set_leg_position(1, req_id, i, p[1], p[2], p[3])
  \/ set_leg_servo_angles(1, req_id, i, Angles[1], Angles[2], Angles[3])
  \/ set_leg_joint_angles(1, req_id, i, Angles[1], Angles[2], Angles[3])

\* C4 as stated: with an index outside [0,5] an indexed leg setter fails with the
\* index error and changes neither the leg table nor a servo channel.
C4_IndexErrorAlways ==
  [][\A req_id \in Ids, i \in LegIndexes \ Legs :
       IndexedCall(req_id, i)
         => /\ out'.env = error_response(req_id, ErrLegIndex)
            /\ UNCHANGED LegsAndServos]_vars

\* C4 amended: with an index outside [0,5] an indexed leg setter changes neither
\* the leg table nor a servo channel, and fails with the index error when manual
\* leg control is allowed, with the precondition error when it is not.
C4_IndexRejected ==
  [][\A req_id \in Ids, i \in LegIndexes \ Legs :
       IndexedCall(req_id, i)
         => /\ out'.env = error_response(req_id, IF manual_leg_allowed THEN ErrLegIndex
                                                  ELSE ErrManual)
            /\ UNCHANGED LegsAndServos]_vars

\* C4 witness: an indexed setter was refused for its index.
C4_Witness == out.env.body = ErrLegIndex /\ ~moving

\* C5: after a move with motion every leg setter fails with the precondition
\* error; after a stop that follows, with no tracking, set_leg_position on a
\* reachable target succeeds and the leg holds the target.
C5_StopReenables ==
  [][\A req_id \in Ids :
       /\ LegSetterCall(req_id) /\ since_move = "moved"
            => out'.env = error_response(req_id, ErrManual)
       /\ \A p \in {q \in {PosA} : Reachable(Ints(q))} :
            /\ set_leg_position(1, req_id, 5, p[1], p[2], p[3])
            /\ since_move = "stopped" /\ tpc = "dead" /\ ~ball_active
            => /\ out'.env = ok_response(req_id, None)
               /\ leg_positions'[5] = Ints(p)]_vars

\* C6: the command and the timestamp of the slot always come from the same
\* issuance, at every state the motion executor can read the slot in.
C6_SlotAtomic == cmd_by = ts_by

\* C7: once a handler thread and the tracking thread have both finished their
\* writes, the slot's command and timestamp come from the same issuance and the
\* timestamp is the later of the two written.
C7_LastWriteWins ==
  (pc[1] = "idle" /\ tpc # "ts")
    => cmd_by = ts_by /\ timeout = Max(rpc_ts, track_ts)

\* The handler threads inside a device method.
InDevice == {w \in Workers : pc[w] \in {"legs", "ts", "join"}}

\* C8: at most one handler thread is inside a device method.
C8_OneDeviceCall == Cardinality(InDevice) <= 1

\* C8 witness: connection 2 is inside a device call after connection 1 was
\* answered by one.
C8_Witness ==
  /\ pc[2] = "legs"
  /\ out = [w |-> 1, env |-> ok_response("x", None)]

\* The table a batch of well-formed positions asks for.
TableOf(positions) == [l \in Legs |-> Ints(positions[l + 1].items)]

\* C9: with connections calling set_leg_positions concurrently, a call
\* validates the table of its own batch, and with no call in progress the leg
\* table is the initial one or the table of one reachable batch.
C9_NoMixedTable ==
  /\ \A w \in Workers :
       pc[w] = "legs" =>
         \A l \in Legs : l < loc[w].i => leg_positions[l] = Ints(loc[w].batch[l + 1].items)
  /\ InDevice = {} =>
       leg_positions \in {HomeTable, TableOf(BatchA), TableOf(BatchB)}

\* C9 witness: connection 1 is about to validate its batch, written over the
\* batch connection 2 had set.
C9_Witness ==
  /\ pc[1] = "legs" /\ loc[1].i = NumLegs /\ loc[1].batch = BatchA
  /\ loc[1].prev = TableOf(BatchB)
  /\ leg_positions = TableOf(BatchA)
  /\ out.w = 2

\* C10: a handler thread that is not processing a request has answered the
\* last request line it read.
C10_OneEnvelopePerLine ==
  \A w \in unanswered : pc[w] \notin {"idle", "closed", "crashed"}

\* The exceptions the leg setters raise: kind and message.
Raised ==
  { <<"RuntimeError", "Stop motion and ball tracking before manual leg control.">>,
    <<"ValueError", "positions must contain 6 items.">>,
    <<"ValueError", "Each position must be [x, y, z].">>,
    <<"ValueError", "Leg positions out of range.">>,
    <<"ValueError", "invalid literal for int() with base 10">>,
    <<"TypeError", "object of type 'int' has no len()">> }

\* Connection w's call with id req_id returns by an exception of the device.
RaisingReturn(w, req_id) ==
  \/ \E b \in RpcBatches : set_leg_positions(w, req_id, b) /\ pc'[w] = "idle"
  \/ set_leg_positions_entry(w) /\ loc[w].id = req_id /\ pc'[w] = "idle"
  \/ set_leg_positions_check(w) /\ loc[w].id = req_id /\ ~check_point_validity(leg_positions)

\* C11: when a device call raises, the lock is free afterwards, the connection
\* gets a failure envelope with the request's id and "<kind>: <message>", its
\* handler thread reads the next line, and no other handler thread is disturbed.
C11_DeviceErrorCaught ==
  [][\A w \in Workers, req_id \in Ids \cup {NullId} :
       RaisingReturn(w, req_id)
         => /\ lock' = 0
            /\ \E e \in Raised :
                  out' = [w |-> w, env |-> error_response(req_id, exc_text(e[1], e[2]))]
            /\ pc'[w] = "idle" /\ w \notin unanswered'
            /\ \A v \in Workers \ {w} : pc'[v] = pc[v] /\ loc'[v] = loc[v]]_vars

\* C11 witness: after connection 1's call was answered with the validator's
\* error, connection 2 is inside a device call and connection 1 reads on.
C11_Witness ==
  /\ out = [w |-> 1, env |-> error_response("x", ErrLegsRange)]
  /\ pc[1] = "idle" /\ pc[2] = "legs" /\ lock = 2

\* C12: ball_state returns "not tracking" exactly when no tracking loop is
\* running, and "ongoing" or "completed" whenever one is.
C12_StateMatchesLoop ==
  [][\A req_id \in Ids :
       ball_state(1, req_id)
         => /\ (out'.env.body = "not tracking") <=> (live_loops = 0)
            /\ live_loops > 0 => out'.env.body \in {"ongoing", "completed"}]_vars

\* The last call returned was ball_start.
AfterStart == last_call \in {"ball_start", "ball_start/running"}

\* C13 as stated: ball_state right after ball_start returns "ongoing", and right
\* after ball_stop "not tracking".
C13_StateAfterStartStop ==
  [][\A req_id \in Ids :
       ball_state(1, req_id)
         => /\ AfterStart => out'.env = ok_response(req_id, "ongoing")
            /\ last_call = "ball_stop" => out'.env = ok_response(req_id, "not tracking")]_vars

\* C13 amended: ball_state right after ball_start returns "ongoing", or
\* "completed" when the loop's last tick since has found the target centred;
\* right after ball_stop it returns "not tracking".
C13_StateAfterStartStopOrTick ==
  [][\A req_id \in Ids :
       ball_state(1, req_id)
         => /\ AfterStart
                 => out'.env = ok_response(req_id, IF tick_centred THEN "completed"
                                                   ELSE "ongoing")
            /\ last_call = "ball_stop" => out'.env = ok_response(req_id, "not tracking")]_vars

\* C13 witness: ball_state has answered "ongoing" to the call after a ball_start
\* with the loop in the middle of a tick.
C13_Witness ==
  /\ AfterStart /\ out.env.body = "ongoing" /\ tpc = "ts"

C15_OneTrackingLoop ==
  [][/\ live_loops' <= 1
     /\ \A req_id \in Ids :
          ball_start(1, req_id) /\ live_loops > 0 => live_loops' = live_loops /\ tpc' = tpc]_vars

\* C15 witness: ball_start has returned with the loop already running.
C15_Witness == last_call = "ball_start/running" /\ live_loops = 1 /\ pc[1] = "idle"

\* C16: at most one LED thread is live, and it is the one the device holds.
C16_OneLedTask ==
  /\ live_leds <= 1
  /\ live_leds = 1 <=> led_thread = "run"

\* C16 witness: an LED command runs in place of one that was cancelled.
C16_Witness ==
  /\ live_leds = 1 /\ led_command = <<CMD_LED_MOD, "2">>
  /\ \E k \in forced : k.kind = "led"

\* C17: a task is terminated by force only after it was signalled to stop and
\* joined.
C17_CooperativeBeforeForced == \A k \in forced : k.signalled /\ k.joined

\* stop's command: Move(gait=1, x=0, y=0, speed, angle=0).
StopCommand(tempo) == <<CMD_MOVE, "1", "0", "0", str(tempo), "0">>

\* Connection 1's call of the method returns.
Returns(method) == write_timeout(1) /\ loc[1].method = method

\* C18: ball_stop writes its stop command only with the stop signal set and the
\* loop ended; when it returns no loop is running and the slot holds the stop
\* command at the current speed, written by the call; and with no loop running
\* the tracking loop does not write the slot.
C18_BallStopEndsLoop ==
  [][/\ (pc[1] # "ts" /\ pc'[1] = "ts" /\ loc'[1].method = "ball_stop")
          => ball_stop_set' /\ tpc' = "dead" /\ live_loops' = 0
     /\ Returns("ball_stop")
          => /\ tpc' = "dead" /\ live_loops' = 0
             /\ command_queue' = StopCommand(move_speed)
             /\ cmd_by' = "rpc"
     /\ (live_loops = 0 /\ cmd_by' = "track")
          => cmd_by = "track" /\ command_queue' = command_queue]_vars

\* C18 witness: ball_stop has returned after cancelling by force a loop that
\* had written the slot.
C18_Witness ==
  /\ last_call = "ball_stop" /\ pc[1] = "idle" /\ tpc = "dead"
  /\ \E k \in forced : k.kind = "ball"
  /\ command_queue = StopCommand(move_speed) /\ cmd_by = "rpc" /\ ts_by = "rpc"

\* C19: a stop with the tracking loop running writes the stop command and clears
\* the moving flag, neither signals nor ends the loop, and every later tick that
\* gets a frame writes the slot.
C19_StopLeavesTracking ==
  [][/\ \A req_id \in Ids :
          stop(1, req_id) /\ live_loops > 0
            => /\ command_queue' = StopCommand(move_speed) /\ ~moving'
               /\ ball_stop_set' = ball_stop_set /\ ~ball_stop_set'
               /\ tpc' = tpc /\ live_loops' = live_loops
     /\ \A f \in Frames :
          track_frame(f[1], f[2], f[3])
            => cmd_by' = "track" /\ command_queue'[1] = CMD_MOVE]_vars

\* C19 witness: after a stop that followed a move, the loop has written a
\* command with a step over the stop command.
C19_Witness ==
  /\ since_move = "stopped" /\ pc[1] = "idle" /\ last_call = "other"
  /\ cmd_by = "track" /\ ts_by = "track" /\ command_queue[4] = "15"

\* C20: when disconnect returns no tracking loop is running, ball_state is
\* "not tracking", the moving flag is clear, the slot holds the stop command,
\* servo power is off, the camera stream is stopped and the device is not
\* connected.
C20_DisconnectCancelsTracking ==
  [][Returns("disconnect")
       => /\ tpc' = "dead" /\ live_loops' = 0
          /\ ball_state_value' = "not tracking"
          /\ ~moving'
          /\ command_queue' = StopCommand(move_speed)
          /\ ~servo_power' /\ ~streaming' /\ ~connected']_vars

\* C20 witness: disconnect has returned on a connected device whose tracking
\* loop it cancelled.
C20_Witness ==
  /\ ~servo_power /\ ~connected /\ ~streaming /\ pc[1] = "idle" /\ tpc = "dead"
  /\ \E k \in forced : k.kind = "ball"
  /\ since_move = "stopped"

MotionMethods == {"move", "stop", "balance", "position", "attitude"}

\* C21: a motion or posture call writes the command built from its arguments
\* coerced to integers (Move with the current speed); move sets the moving flag
\* exactly when a coerced x, y or angle is not zero and stop clears it; and when
\* the call returns with no tracking loop running, the slot still holds that
\* command and the timestamp is the current time.
C21_CommandWritten ==
  [][/\ \A req_id \in Ids :
          /\ \A a \in MoveArgs :
               move(1, req_id, a[1], a[2], a[3], a[4]) /\ CanInt(a[1]) /\ CanInt3(a[2], a[3], a[4])
                 => /\ command_queue' = <<"CMD_MOVE", str(int(a[1])), str(int(a[2])),
                                          str(int(a[3])), str(move_speed), str(int(a[4]))>>
                    /\ cmd_by' = "rpc"
                    /\ moving' = (int(a[2]) # 0 \/ int(a[3]) # 0 \/ int(a[4]) # 0)
          /\ stop(1, req_id)
               => command_queue' = <<"CMD_MOVE", "1", "0", "0", str(move_speed), "0">> /\ ~moving'
          /\ balance(1, req_id, TRUE) => command_queue' = <<"CMD_BALANCE", "1">>
          /\ position(1, req_id, I(0), I(0), I(10))
               => command_queue' = <<"CMD_POSITION", "0", "0", "10">>
          /\ attitude(1, req_id, I(0), F(11), I(0))
               => command_queue' = <<"CMD_ATTITUDE", "0", "5", "0">>
     /\ \A method \in MotionMethods :
          Returns(method) /\ live_loops = 0
            => /\ cmd_by' = "rpc" /\ ts_by' = "rpc"
               /\ command_queue' = command_queue /\ cmd_by = "rpc"
               /\ timeout' = now
               /\ moving' = moving]_vars

\* C21 witness: a move has returned at a speed set after construction and at a
\* later time, with no tracking loop running.
C21_Witness ==
  /\ pc[1] = "idle" /\ live_loops = 0 /\ moving
  /\ command_queue = <<"CMD_MOVE", "1", "0", "5", "3", "0">>
  /\ cmd_by = "rpc" /\ ts_by = "rpc" /\ timeout = 1

\* The message dispatch rejects a request with before any lookup or call, "none"
\* for a request it does not reject.
Rejection(message) ==
  IF message.method.t \in {"absent", "null"} THEN "Missing 'method'"
  ELSE IF message.args.t \notin {"absent", "list"} THEN "'args' must be a list"
  ELSE IF message.kwargs.t \notin {"absent", "dict"} THEN "'kwargs' must be a dict"
  ELSE IF /\ message.method.t = "str"
          /\ message.method.v \notin DeviceMethods \cup {"ping", "status", "shutdown"}
       THEN "Unknown method: " \o message.method.v
  ELSE "none"

\* C22: a request rejected at dispatch (method missing, name not an operation of
\* the device, args not a list, kwargs not a mapping) is answered with a failure
\* envelope carrying the request's id and the message of its rejection ("Unknown
\* method: <name>" for an unknown name), and the step calls nothing on the device:
\* the device state, the lock and every handler's position are unchanged. A request
\* without args and kwargs is accepted: ball_state and ping answer it with success.
C22_RejectedAtDispatch ==
  [][\A w \in Workers :
       /\ \A message \in Messages :
            Rejection(message) # "none" /\ dispatch(w, message)
              => /\ out' = [w |-> w, env |-> [id |-> message.id, ok |-> FALSE,
                                             body |-> Rejection(message)]]
                 /\ UNCHANGED <<flagVars, connVars, slotVars, now, ledVars, legVars, servo,
                                trackVars, rpcVars>>
       /\ \A req_id \in Ids \cup {NullId} :
            /\ dispatch(w, Message(req_id, Str("nope"), Absent, Absent))
                 => out'.env = [id |-> req_id, ok |-> FALSE, body |-> "Unknown method: nope"]
            /\ dispatch(w, Message(req_id, Str("ball_state"), Absent, Absent))
                 => out'.env = [id |-> req_id, ok |-> TRUE, body |-> ball_state_value]
            /\ dispatch(w, Message(req_id, Str("ping"), Absent, Absent))
                 => out'.env = [id |-> req_id, ok |-> TRUE, body |-> "pong"]]_vars

\* C22 witness: a request with an id and an unknown method name has been rejected
\* while another handler was inside a device call.
C22_Witness ==
  /\ out.env = [id |-> "x", ok |-> FALSE, body |-> "Unknown method: nope"]
  /\ \E w \in Workers : w # out.w /\ lock = w /\ pc[out.w] = "idle"

\* C23: a request line that is not valid JSON is answered with a failure envelope
\* whose id is null, calls nothing on the device, and leaves the handler reading
\* the connection, so that the next request on it is served.
C23_InvalidJsonAnswered ==
  [][\A w \in Workers :
       bad_json(w) \/ undecodable_line(w)
         => /\ out'.w = w /\ out'.env.id = NullId /\ ~out'.env.ok
            /\ pc'[w] = "idle"
            /\ UNCHANGED <<flagVars, connVars, slotVars, now, ledVars, legVars, servo,
                           trackVars, lock, loc>>]_vars

\* C24: the success reply to a shutdown request is delivered before the bridge
\* stops serving and closes: while a handler still has that reply to write, the
\* listening socket is open.
C24_ReplyBeforeTeardown ==
  \A w \in Workers : pc[w] = "send" => listening

\* server_close has run to its end.
Closed == pc[MainThread] \in {"closed", "exited"}

\* C25: server_close attempts ball_stop and then disconnect, each while it holds
\* the dispatch lock, before it closes; when it ends the listening socket is
\* closed, the socket path is removed and the lock is free, whether or not the
\* attempts raised, and the socket is never closed before both attempts.
C25_ServerCloseReleases ==
  /\ pc[MainThread] \in {"join", "ts", "disconnect", "close"} => lock = MainThread
  /\ ~listening \/ ~socket_path => Closed
  /\ Closed
       => /\ ~listening /\ ~socket_path /\ lock # MainThread
          /\ Len(closing) = 2
          /\ closing[1].op = "ball_stop" /\ closing[1].locked
          /\ closing[2].op = "disconnect" /\ closing[2].locked

\* C25 witness: server_close has ended after both ball_stop and disconnect raised,
\* with the tracking loop started before.
C25_Witness ==
  /\ pc[MainThread] = "closed" /\ ~listening /\ ~socket_path
  /\ Len(closing) = 2 /\ closing[1].raised /\ closing[2].raised
  /\ is_alive(tpc)

\* The servo angles last written to the three channels of a leg.
ServoOf(l) == <<servo[LEG_CHANNELS[l + 1][1]], servo[LEG_CHANNELS[l + 1][2]],
                servo[LEG_CHANNELS[l + 1][3]]>>

\* C26: when a leg in 0..2 and a leg in 3..5 with equal calibration offsets were
\* last written by joint-angle calls with equal inputs, their servo_a are equal
\* and their servo_b, and their servo_c, sum to 180, clamped or not; b = 20 with
\* zero calibration gives 70 on leg 0 and 110 on leg 3.
C26_MirrorSymmetry ==
  /\ \A lo \in {l \in Legs : l < 3}, hi \in {l \in Legs : l >= 3} :
       /\ joint_in[lo] # NoInput
       /\ joint_in[lo] = joint_in[hi]
       /\ calibration_angles[lo] = calibration_angles[hi]
       => /\ ServoOf(lo)[1] = ServoOf(hi)[1]
          /\ ServoOf(lo)[2] + ServoOf(hi)[2] = 180
          /\ ServoOf(lo)[3] + ServoOf(hi)[3] = 180
  /\ /\ calibration_angles = ZeroCalibration
     /\ joint_in[0] # NoInput /\ joint_in[0][2] = 20
     /\ joint_in[3] # NoInput /\ joint_in[3][2] = 20
     => ServoOf(0)[2] = 70 /\ ServoOf(3)[2] = 110

\* C26 witness: legs 0 and 3, with equal non-zero offsets, were written with equal
\* joint angles beyond the range, and all three of leg 0's angles were clamped.
C26_Witness ==
  /\ calibration_angles[0] = Offsets /\ calibration_angles[3] = Offsets
  /\ joint_in[0] = <<200, 0 - 100, 190>> /\ joint_in[3] = joint_in[0]
  /\ ServoOf(0) = <<180, 180, 180>>

\* Clamping to [0, 180].
Clamp180(v) == IF v < 0 THEN 0 ELSE IF v > 180 THEN 180 ELSE v

\* The servo table with the channels of leg l set to the angles given.
ServoWith(l, angles) ==
  [c \in Channels |->
     IF c = LEG_CHANNELS[l + 1][1] THEN angles[1]
     ELSE IF c = LEG_CHANNELS[l + 1][2] THEN angles[2]
     ELSE IF c = LEG_CHANNELS[l + 1][3] THEN angles[3]
     ELSE servo[c]]

\* C27: set_leg_joint_angles(i, a, b, c) writes to the three channels of leg i
\* the clamped calibrated angles, (a + cal.a, 90 - (b + cal.b), c + cal.c) for i in
\* 0..2 and (a + cal.a, 90 + b + cal.b, 180 - (c + cal.c)) for i in 3..5, each in
\* [0, 180]; set_leg_servo_angles writes the integer parts of its angles as they
\* are; neither writes any other channel.
C27_SettersWriteExactly ==
  [][\A req_id \in Ids, i \in CalibLegs, t \in JointAngles :
       LET a == int(t[1])
           b == int(t[2])
           c == int(t[3])
           cal == calibration_angles[i]
       IN  /\ set_leg_joint_angles(1, req_id, i, t[1], t[2], t[3])
              => /\ servo' = ServoWith(i, IF i <= 2
                                          THEN <<Clamp180(a + cal[1]),
                                                 Clamp180(90 - (b + cal[2])),
                                                 Clamp180(c + cal[3])>>
                                          ELSE <<Clamp180(a + cal[1]),
                                                 Clamp180(90 + b + cal[2]),
                                                 Clamp180(180 - (c + cal[3]))>>)
                 /\ \A j \in 1..LegLen :
                      servo'[LEG_CHANNELS[i + 1][j]] \in 0..180
           /\ set_leg_servo_angles(1, req_id, i, t[1], t[2], t[3])
              => servo' = ServoWith(i, <<a, b, c>>)]_vars

\* C27 witness: on a robot with offsets, leg 5 was written by a joint-angle call
\* whose angles were all clamped, and leg 0 by a raw call with angles outside
\* [0, 180].
C27_Witness ==
  /\ calibration_angles[5] = Offsets
  /\ joint_in[5] = <<0 - 20, 100, 0 - 10>>
  /\ ServoOf(5) = <<0, 180, 180>>
  /\ joint_in[0] = NoInput /\ ServoOf(0) = <<200, 0 - 100, 190>>

\* C28: after every compute the accumulated integral error of each PID lies
\* within [-10, 10], however long the error has kept one sign.
C28_IntegralBounded ==
  /\ pid_x.i_error \in (0 - i_saturation)..i_saturation
  /\ pid_distance.i_error \in (0 - i_saturation)..i_saturation

\* C28 witness: the integral of the x PID is at the bound after a compute whose
\* error, 3, was also the error of the compute before it, and that of the
\* distance PID is at the lower bound after errors of -1.
C28_Witness ==
  /\ pid_x.i_error = i_saturation /\ pid_x.last_error = 3 /\ pid_x.output = 0 - 200
  /\ pid_distance.i_error = 0 - i_saturation

Abs(n) == IF n < 0 THEN 0 - n ELSE n

\* The error of the compute before the last one.
PrevError(pid) == pid.last_error - pid.delta

\* A tick computes on a target found.
Computes == \E f \in PidFrames : f[1] /\ track_frame(f[1], f[2], f[3])

\* The error has not grown over the last two computes of the x PID.
Settling ==
  /\ Abs(pid_x'.last_error) <= Abs(pid_x.last_error)
  /\ Abs(pid_x.last_error) <= Abs(PrevError(pid_x))

\* C29 as stated: with set point 180 and gains 0.05, 0.005, 0.02, once the error
\* no longer grows, the magnitude of each output is not larger than that of the
\* output before it.
C29_OutputShrinks ==
  [][Computes /\ Settling => Abs(pid_x'.output) <= Abs(pid_x.output)]_vars

\* C29 amended: once the error no longer grows, the magnitude of each output is
\* not larger than that of the output before it while the integral term stays at
\* its saturation bound and the error changes by the same amount as at the
\* compute before.
C29_OutputShrinksSaturated ==
  [][/\ Computes /\ Settling
     /\ Abs(pid_x.i_error) = i_saturation /\ pid_x'.i_error = pid_x.i_error
     /\ pid_x'.last_error - pid_x.last_error = pid_x.last_error - PrevError(pid_x)
     => Abs(pid_x'.output) <= Abs(pid_x.output)]_vars

\* C29 witness: with the integral at its bound, the x PID has computed on errors
\* 2 and then 1, and returned -0.08.
C29_Witness ==
  /\ pid_x.i_error = i_saturation /\ pid_x.last_error = 1 /\ PrevError(pid_x) = 2
  /\ pid_x.output = 0 - 80

\* A Move with gait 1, x 0, a forward step within [-15, 15], a turn within
\* [-10, 10] and the speed given.
BoundedMoves(tempo) ==
  { <<CMD_MOVE, "1", "0", str(y), str(tempo), str(a)>> :
      y \in (0 - StepClamp)..StepClamp, a \in (0 - AngleClamp)..AngleClamp }

\* C30: every command a tick of the tracking loop writes is a Move with gait 1,
\* x 0, a forward step within [-15, 15], a turn within [-10, 10] and the speed
\* setting of that moment, whatever the PID outputs are; the loop's other steps
\* leave the slot's command alone.
C30_TrackingWritesBoundedMove ==
  [][/\ (\E f \in ClampFrames : track_frame(f[1], f[2], f[3]))
          => command_queue' \in BoundedMoves(move_speed) /\ cmd_by' = "track"
     /\ track_exit \/ track_no_frame \/ track_timeout
          => command_queue' = command_queue /\ cmd_by' = cmd_by]_vars

\* C30 witness: at speed 3, set after construction, a tick has written a Move
\* with step -15 and turn -10 when the PID outputs were -18 and -12.65.
C30_Witness ==
  /\ command_queue = <<CMD_MOVE, "1", "0", "-15", "3", "-10">> /\ cmd_by = "track"
  /\ move_speed = 3
  /\ pid_distance.output = 0 - 18000 /\ pid_x.output = 0 - 12650

\* The PID state the formulas of error, integral, output and last_error give for
\* a PID in state pid on feedback f.
Stepped(pid, f) ==
  LET error == pid.set_point - f
      sum == pid.i_error + error
      integral == IF sum < 0 - 10 THEN 0 - 10 ELSE IF sum > 10 THEN 10 ELSE sum
  IN  [set_point |-> pid.set_point, kp |-> pid.kp, ki |-> pid.ki, kd |-> pid.kd,
       i_error |-> integral, last_error |-> error, delta |-> error - pid.last_error,
       output |-> 0 - (pid.kp * error + pid.ki * integral
                       + pid.kd * (error - pid.last_error))]

\* C31: a compute on feedback f takes error = set_point - f, adds it to the
\* integral and clamps that to [-10, 10], returns -(kp*error + ki*integral +
\* kd*(error - last_error)) with the last_error the call before stored, and
\* stores error as last_error; the x PID is stepped by the target's x alone and
\* the distance PID by the distance alone.
C31_ComputeStep ==
  [][\A f \in PidFrames :
       track_frame(f[1], f[2], f[3])
         => /\ pid_x' = Stepped(pid_x, f[2])
            /\ pid_distance' = Stepped(pid_distance, round(27000, 2 * f[3]))]_vars

\* C31 witness: the x PID has computed on errors 0, 3 and 2 (integral 5, output
\* -0.105) while the distance PID, which saw -1, 0 and 0, keeps its own integral
\* -1 and returned 0.05.
C31_Witness ==
  /\ pid_x.i_error = 5 /\ pid_x.last_error = 2 /\ pid_x.delta = 0 - 1
  /\ pid_x.output = 0 - 105
  /\ pid_distance.i_error = 0 - 1 /\ pid_distance.last_error = 0
  /\ pid_distance.output = 50

\* C32: a tick that obtains a frame first sets the state to ongoing, whatever it
\* was, and ends, while tracking is active, with the state "completed" exactly
\* when a target was found and the step and the angle it wrote are both 0; with
\* no target it writes the Move with zero deltas and ends ongoing.
C32_TickTransition ==
  [][/\ \A f \in Frames :
          track_frame(f[1], f[2], f[3])
            => /\ ball_tracking'
               /\ centred' = (f[1] /\ command_queue'[4] = "0" /\ command_queue'[6] = "0")
               /\ ~f[1] => command_queue' = <<CMD_MOVE, "1", "0", "0", str(move_speed), "0">>
     /\ track_timeout /\ ball_active
          => ball_state_value' = IF centred THEN "completed" ELSE "ongoing"]_vars

\* C32 witness: tracking is active and a tick has ended completed on a centred
\* target that earlier ticks had found off centre.
C32_Witness ==
  /\ tpc = "loop" /\ tick_centred /\ ball_active /\ ~ball_tracking
  /\ pid_x.i_error = 0 - i_saturation /\ pid_x.last_error = 0

\* C33: a tick with no frame writes nothing to the command slot, changes no
\* tracking flag and no PID state, raises nothing to a caller, and the loop goes
\* on to its next tick; once the stop signal is set a live loop exits.
C33_NoFrameRetries ==
  /\ [][track_no_frame
          => /\ UNCHANGED <<slotVars, flagVars, pidVars, rpcVars, out>>
             /\ tpc' = "loop" /\ live_loops' = live_loops]_vars
  /\ (tpc = "loop" /\ ball_stop_set) ~> (tpc = "dead")

\* C33 witness: the loop has read the camera, has never had a frame to write a
\* command from, and after ball_stop's signal has exited by itself while
\* ball_stop still waits in its join.
C33_Witness ==
  /\ tpc = "dead" /\ forced = {} /\ ball_stop_set /\ pc[1] = "join"
  /\ streaming /\ ~connected /\ cmd_by = "init" /\ pid_x.last_error = 0

\* C34: a move call that raises because an argument cannot be coerced to an
\* integer leaves the moving flag, the tracking-active flag, the state
\* ball_state reports, and the command slot with its timestamp as they were.
C34_RaisingMoveLeavesState ==
  [][\A req_id \in Ids : \A a \in MoveArgs :
       move(1, req_id, a[1], a[2], a[3], a[4]) /\ ~(CanInt(a[1]) /\ CanInt3(a[2], a[3], a[4]))
         => /\ UNCHANGED <<moving, ball_active, slotVars>>
            /\ ball_state_value' = ball_state_value]_vars

\* A batch of six entries, each a sequence of three integer-coercible values.
WellFormedAngles(angles) ==
  /\ Len(angles) = NumLegs
  /\ \A n \in 1..Len(angles) :
       /\ angles[n].seq
       /\ Len(angles[n].items) = LegLen
       /\ CanInt3(angles[n].items[1], angles[n].items[2], angles[n].items[3])

\* C35: set_leg_servo_angles_all and set_leg_joint_angles_all on a malformed
\* batch fail and write no servo channel of any leg, the legs whose entries
\* precede the malformed one included.
C35_MalformedBatchWritesNothing ==
  [][\A req_id \in Ids : \A b \in AngleBatches :
       /\ set_leg_servo_angles_all(1, req_id, b) \/ set_leg_joint_angles_all(1, req_id, b)
       /\ ~WellFormedAngles(b)
       => ~out'.env.ok /\ servo' = servo]_vars

\* C36: with tracking active and every tick finding the target centred, every
\* ball_state read made after the first tick of the loop has completed returns
\* "completed", at whatever point of the loop's later ticks it is made.
C36_CompletedWhileCentred ==
  [][\A req_id \in Ids :
       /\ ball_state(1, req_id)
       /\ ball_active /\ last_call = "ball_start" /\ ts_by \in {"track", "old"}
       => out'.env = ok_response(req_id, "completed")]_vars

\* C37: a tick counts the target as found only when there is a contour, the
\* moment area of the largest is above zero and its radius is at least 7; only
\* then is the distance computed from the radius, which is then not 0, and the
\* distance fed to the PID is at most round(2700/14); in every other case no
\* PID computes and the tick writes the Move with zero deltas.
C37_DistanceOnlyForTarget ==
  [][\A img \in Images :
       track_image(img[1], img[2], img[3], img[4])
         => IF img[1] > 0 /\ img[2] > 0 /\ img[4] >= 70
            THEN /\ img[4] # 0
                 /\ pid_distance'.last_error
                      = pid_distance.set_point - round(2700 * 10, 2 * img[4])
                 /\ pid_distance.set_point - pid_distance'.last_error <= round(2700, 14)
            ELSE /\ UNCHANGED pidVars
                 /\ ~centred'
                 /\ command_queue' = <<CMD_MOVE, "1", "0", "0", str(move_speed), "0">>]_vars

\* C37 witness: a tick has computed on a target of radius exactly 7, at the
\* distance 193.
C37_Witness ==
  /\ tpc = "ts" /\ pid_distance.last_error = 60 - 193 /\ pid_distance.delta = 0 - 133

\* The attributes of the device whose name begins with an underscore.
PrivateNames ==
  { "__init__", "_run_led_command", "_ball_tracking_loop", "_read_frame", "_assert_leg_index",
    "_ensure_manual_leg_allowed", "_apply_calibration" }

\* C39: a request whose method names an internal helper of the device is
\* answered 'Unknown method' and executes nothing: no handler thread enters the
\* device for it.
C39_PrivateRejected ==
  [][\A w \in Workers : \A message \in Messages :
       /\ message.method.t = "str" /\ message.method.v \in PrivateNames
       /\ message.args.t \in {"absent", "list"} /\ message.kwargs.t \in {"absent", "dict"}
       /\ dispatch(w, message)
       => /\ out' = [w |-> w,
                     env |-> error_response(message.id,
                                            "Unknown method: " \o message.method.v)]
          /\ UNCHANGED <<lock, pc>>]_vars

\* C38: a handler thread that has taken the dispatch lock for a device call
\* eventually releases it, whatever method the request names.
C38_LockReleased == \A w \in Workers : (lock = w) ~> (lock # w)

\* C40: on each connection every request line is answered before the next is
\* read, by one response that carries the request's id, null for a line that
\* cannot be parsed, however the calls of other connections interleave.
C40_ResponsesInOrder ==
  [][\A w \in Workers :
       /\ \A message \in Messages :
            dispatch(w, message)
              => /\ pc'[w] \in {"idle", "legs", "loop", "send"}
                 /\ pc'[w] = "idle" => out'.w = w /\ out'.env.id = message.id
       /\ bad_json(w) \/ undecodable_line(w) \/ not_an_object(w)
            => pc'[w] = "idle" /\ out'.w = w /\ out'.env.id = NullId
       /\ (LegSteps(w) \/ send_response(w)) /\ pc'[w] = "idle"
            => out'.w = w /\ out'.env.id = loc[w].id]_vars

====
